---------------------------- MODULE Spec2Model ----------------------------
(***************************************************************************)
(* A model of the Cassegrain telescope ray tracer: the bounce state        *)
(* machine of TelescopeOptimizer::traceRay, the sensor accumulator         *)
(* (CameraSensor) and the coarse grid scan of                              *)
(* TelescopeOptimizer::optimizeSecondaryPosition.                          *)
(*                                                                         *)
(* Geometry is abstracted: what Mirror::intersect returns for the current  *)
(* ray is held in the variable isect, drawn afresh from a bounded set each *)
(* time the ray changes (construction, reflection).  Everything the        *)
(* propagator does with those answers is modelled as the code does it.     *)
(*                                                                         *)
(* Two specifications share the variables:                                 *)
(*   SpecTrace  clearHits followed by a bundle of rays, one step per       *)
(*              iteration of traceRay's bounce loop;                       *)
(*   SpecOpt    one call of optimizeSecondaryPosition, one step per grid   *)
(*              position, over a landscape that gives the outcome of the   *)
(*              ray bundle at each position of the secondary.              *)
(***************************************************************************)
EXTENDS Integers, Sequences, FiniteSets, TLC

(***************************************************************************)
(* Bounds of the model.                                                    *)
(***************************************************************************)
MaxDist == 2          \* intersection distances are 1..MaxDist
MaxBounces == 3       \* maxBounces is drawn from 0..MaxBounces
MaxTraceRays == 2     \* SpecTrace: rays per bundle, 1..MaxTraceRays
MaxRays == 4          \* SpecOpt: numRays is drawn from 2..MaxRays
MaxCells == 3         \* SpecOpt: the scan grid has at most MaxCells positions
MaxBlocked == 1       \* SpecOpt: blocked rays per bundle, 0..MaxBlocked
MaxIterations == 3    \* SpecFine: maxIterations is drawn from 0..MaxIterations
MaxSeed == 1          \* SpecFine: the seed is up to MaxSeed valley steps from the optimum
MaxConfigs == 3       \* SpecBatch: the CSV file holds 0..MaxConfigs configurations
MaxBatchSpread == 3   \* SpecBatch: spread of a two-point spot, in units of 2^-11
MaxOrigin == 6        \* SpecHyp: ray origins are within MaxOrigin of the mirror's centre
MaxHalfDiameter == 12 \* SpecBuild: mirror diameters are 2, 4, .., 2 * MaxHalfDiameter
MaxDir == 3           \* SpecReflect: direction components are in -MaxDir..MaxDir
MaxHeight == 6        \* SpecPar: rays start at heights in -MaxHeight..MaxHeight
MaxScanSteps == 3     \* SpecView: the best position is within MaxScanSteps scan steps of the initial one
MaxLoaded == 3        \* SpecViewer: a results file holds at most MaxLoaded configurations

(***************************************************************************)
(* Program constants.                                                      *)
(***************************************************************************)
FLT_MAX == 1000000    \* Intersection(): distance = numeric_limits<float>::max()
MinStep == 1000       \* fineOptimize: if (stepSize < 0.001f) break; in units of 1e-6
Milli == 1000
Clearance == 5
EPSILON == 1          \* SpecPar counts lengths in units of EPSILON         \* the denominator of the direction table's 0.707f

VARIABLES
    mirrors,          \* std::vector<unique_ptr<Mirror>>: sequence of object names
    camera,           \* CameraSensor*: an object name, or "null"
    numRays,          \* int numRays
    maxBounces,       \* int maxBounces
    hitPoints,        \* CameraSensor::hitPoints
    totalRaysTraced,  \* CameraSensor::totalRaysTraced
    blockedRays,      \* CameraSensor::blockedRays
    pc,               \* position in the running function
    i,                \* index of the ray in the bundle (loop variable i)
    ray,              \* the Ray being traced: [id, bounces, path]
    bounce,           \* loop variable of traceRay
    isect,            \* object name -> what its intersect(ray) returns
    secondary,        \* HyperbolicMirror: [centerX, centerY]
    land,             \* position of the secondary -> outcome of the ray bundle
    scan,             \* [scanXMin, scanXMax, scanYMin, scanYMax], steps of 1
    result,           \* OptimizationResult result
    locals,           \* locals of optimizeSecondaryPosition
    surf,             \* SpecFine: the landscape the bundle meets around the seed
    fineArgs,         \* fineOptimize's startX, startY, searchRadius, initialStep, maxIterations
    fine,             \* locals of fineOptimize
    batch,            \* optimizeBatch: [configs, topN, results]
    writers,          \* object -> rows of the configurations whose evaluation wrote it
    input,            \* the arguments of the function under study
    output,           \* what the function built or returned
    viewer            \* the viewer's availableConfigs, currentConfigIndex, and the config it drew last

varsSystem == <<mirrors, camera, numRays, maxBounces>>
varsSensor == <<hitPoints, totalRaysTraced, blockedRays>>
varsRay == <<i, ray, bounce, isect>>
varsOpt == <<secondary, land, scan, result, locals>>
varsFine == <<surf, fineArgs, fine>>
varsBatch == <<batch, writers>>
varsCall == <<input, output>>
varsViewer == <<viewer>>
vars == <<varsSystem, varsSensor, varsRay, varsOpt, varsFine, varsBatch, varsCall, varsViewer, pc>>

(***************************************************************************)
(* Objects.  A surface is named as the program names it; getType is the    *)
(* virtual Mirror::getType of its class.                                   *)
(***************************************************************************)
Objects == {"Primary", "Secondary", "Camera"}

getType(m) ==
    CASE m = "Primary" -> "parabolic"
      [] m = "Secondary" -> "hyperbolic"
      [] m = "Camera" -> "camera"

\* The mirror list BatchOptimizer::evaluateConfig builds: primary, secondary;
\* the sensor is a separate object owned by the caller.
BatchMirrors == <<"Primary", "Secondary">>

\* The mirror list of the viewer after rebuildConfiguration: the sensor is
\* pushed into scene.mirrors and scene.camera points to the same object.
SceneMirrors == <<"Primary", "Secondary", "Camera">>

Systems == {BatchMirrors, SceneMirrors}

(***************************************************************************)
(* Intersection: the default-constructed value and the values a probe may  *)
(* return.                                                                 *)
(***************************************************************************)
NoIntersection == [hit |-> FALSE, distance |-> FLT_MAX]

Intersections ==
    {NoIntersection} \cup {[hit |-> TRUE, distance |-> d] : d \in 1..MaxDist}

\* Ray::Ray: bounces(0), path = <<origin>>.
NewRay(id) == [id |-> id, bounces |-> 0, path |-> <<[ray |-> id, seg |-> -1]>>]

\* closest.point = ray.pointAt(t): the point ending the current segment of
\* the ray. A segment ends in at most one hit, so the pair names the point.
HitPoint == [ray |-> ray.id, seg |-> ray.bounces]

\* Mutant of isGreenRay: mirrors are skipped one bounce later.
isGreenRay_FromThree(b) == b >= 3

\* bool isGreenRay = (bounce >= 2);
isGreenRay(b) == b >= 2

\* Mutant of Closer: a hit at the same distance replaces the one held.
Closer_OrEqual(I, closest) == I.hit /\ I.distance <= closest.distance

\* intersection.hit && intersection.distance < closest.distance
Closer(I, closest) == I.hit /\ I.distance < closest.distance

\* for (auto& mirror : mirrors) { if (isGreenRay) continue; ... }
RECURSIVE ScanMirrors(_, _, _)
ScanMirrors(k, acc, b) ==
    IF k > Len(mirrors) THEN acc
    ELSE LET I == isect[mirrors[k]]
         IN  ScanMirrors(k + 1,
                         IF ~isGreenRay(b) /\ Closer(I, acc.closest)
                         THEN [closest |-> I, hitMirror |-> mirrors[k]]
                         ELSE acc,
                         b)

\* if (camera) { cameraHit = camera->intersect(ray); if (cameraHit.hit &&
\* cameraHit.distance < closest.distance) { closest = cameraHit;
\* hitMirror = nullptr; } }
ProbeCamera(acc) ==
    IF camera # "null" /\ Closer(isect[camera], acc.closest)
    THEN [closest |-> isect[camera], hitMirror |-> "null"]
    ELSE acc

\* closest and hitMirror as they stand before `if (closest.hit)`.
Nearest(b) ==
    ProbeCamera(ScanMirrors(1, [closest |-> NoIntersection, hitMirror |-> "null"], b))

\* Mutant of IsBlocking: the bounce index is not looked at.
IsBlocking_AnyBounce(b, m) == getType(m) = "hyperbolic"

\* bounce == 0 && hitMirror->getType() == "hyperbolic"
IsBlocking(b, m) == b = 0 /\ getType(m) = "hyperbolic"

\* Mutant of CountsAsTraced: an unreflected ray is not counted.
CountsAsTraced_Reflected(r) == r.bounces > 0 /\ camera # "null"

\* if (ray.bounces >= 0 && camera)
CountsAsTraced(r) == r.bounces >= 0 /\ camera # "null"

\* Ray::reflect: path.push_back(hitPoint); bounces++.
reflect(r, p) == [r EXCEPT !.path = Append(@, p), !.bounces = @ + 1]

(***************************************************************************)
(* The sensor accumulator and the coarse grid scan.                        *)
(*                                                                         *)
(* Floats are modelled exactly: a percentage or a mean square is a         *)
(* fraction [num, den] with den > 0. getRMSSpotSize returns a square root; *)
(* the model keeps the value under the root, which orders the same way.    *)
(* Both programs mount the Sensor upright (angle pi/2), so its hit points  *)
(* share their x and a hit point is modelled by its lateral coordinate.    *)
(***************************************************************************)
Rat(n, d) == [num |-> n, den |-> d]

\* a < b on floats.
Less(a, b) == a.num * b.den < b.num * a.den

\* a == b on floats.
Same(a, b) == a.num * b.den = b.num * a.den

\* A field or local that has not been assigned yet.
Indeterminate == "indeterminate"

\* OptimizationResult result; before any field is assigned.
NoResult ==
    [maxHits |-> Indeterminate, bestSecondaryX |-> Indeterminate,
     bestSecondaryY |-> Indeterminate, hitPercentage |-> Indeterminate,
     focusSpread |-> Indeterminate, scanData |-> <<>>]

\* The locals of optimizeSecondaryPosition before their declarations.
NoLocals ==
    [originalX |-> Indeterminate, originalY |-> Indeterminate,
     bestRMS |-> Indeterminate, bestHitsForRMS |-> Indeterminate,
     x |-> Indeterminate, y |-> Indeterminate]

RECURSIVE SumSeq(_)
SumSeq(q) == IF q = <<>> THEN 0 ELSE Head(q) + SumSeq(Tail(q))

\* CameraSensor::getRMSSpotSize: 0 below two hit points, else the root of
\* the mean squared distance from the centroid (here: the mean square).
getRMSSpotSize(pts) ==
    IF Len(pts) < 2 THEN Rat(0, 1)
    ELSE LET n == Len(pts)
             s1 == SumSeq(pts)
             s2 == SumSeq([k \in 1..n |-> pts[k] * pts[k]])
         IN  Rat(n * s2 - s1 * s1, n * n)

\* The first mirror of the list whose getType() is "hyperbolic", or nullptr.
RECURSIVE FindHyperbolic(_)
FindHyperbolic(k) ==
    IF k > Len(mirrors) THEN "null"
    ELSE IF getType(mirrors[k]) = "hyperbolic" THEN mirrors[k]
    ELSE FindHyperbolic(k + 1)

\* A bundle lands focused (all hit points coincide) or with one hit point a
\* unit away from the others.
Spreads == {0, 1}

\* What a bundle of n rays can leave on a cleared Sensor: `hits` hit points,
\* one of them `spread` away from the others, and `blocked` blocked rays.
\* Up to nb rays of the bundle meet the back of the secondary wherever it
\* stands; they are blocked and cannot be among the hits.
Outcomes(n, nb) ==
    {[hits |-> h, spread |-> sp, blocked |-> IF nb < n - h THEN nb ELSE n - h] :
        <<h, sp>> \in {hs \in (0..n) \X Spreads : hs[1] < 2 => hs[2] = 0}}

PointsOf(o) == [k \in 1..o.hits |-> IF k = 1 THEN o.spread ELSE 0]

\* camera->clearHits(); for (i < numRays) { Ray ray(...); traceRay(...); }
\* with the secondary at pos: the Sensor's fields afterwards.
TraceBundle(pos) ==
    [hitPoints |-> PointsOf(land[pos]),
     totalRaysTraced |-> numRays - land[pos].blocked,
     blockedRays |-> land[pos].blocked]

\* The positions the two nested for loops visit (steps of 1).
Grid == (scan.scanXMin..scan.scanXMax) \X (scan.scanYMin..scan.scanYMax)

\* Mutant of MeetsThreshold: every position is a candidate for the best RMS.
MeetsThreshold_Always(hits, n) == TRUE

\* hits >= numRays / 2, on ints
MeetsThreshold(hits, n) == hits >= n \div 2

\* Mutant of FallbackMatches: any position matches.
FallbackMatches_UpTo(hits, maxHits) == hits <= maxHits

\* hits == result.maxHits
FallbackMatches(hits, maxHits) == hits = maxHits

\* Mutant of Restored: the secondary stays where the last trace put it.
Restored_Not(sec, l) == sec

\* secondary->centerX = originalX; secondary->centerY = originalY;
Restored(sec, l) == [sec EXCEPT !.centerX = l.originalX, !.centerY = l.originalY]

\* The loop variables after the body at (x, y): y += scanYStep, and at the
\* end of the row x += scanXStep with y back at scanYMin.
NextCell(l) ==
    IF l.y + 1 <= scan.scanYMax
    THEN [l EXCEPT !.y = @ + 1]
    ELSE [l EXCEPT !.x = @ + 1, !.y = scan.scanYMin]

\* The loop variables after the inner loop of row x has ended.
NextRow(l) == [l EXCEPT !.x = @ + 1, !.y = scan.scanYMin]

(***************************************************************************)
(* The hill climb of fineOptimize.                                         *)
(*                                                                         *)
(* Lengths are integers in units of 1e-6, so that 0.707f times a step that *)
(* is a multiple of 0.001 is exact; float rounding is not modelled.  The   *)
(* bundle has no geometry here either: a landscape gives, for a position   *)
(* of the secondary, the hit count and the spread of the hit points.       *)
(***************************************************************************)
NoSurface == [kind |-> "none"]
NoBatch == [configs |-> <<>>, topN |-> 0, results |-> <<>>]
NoWriters == [o \in {<<"Camera", -1>>} |-> {}]
NoCall == [name |-> "none"]
NoViewer == [availableConfigs |-> <<>>, currentConfigIndex |-> 0, shown |-> 0]
NoFineArgs ==
    [startX |-> Indeterminate, startY |-> Indeterminate,
     searchRadius |-> Indeterminate,
     initialStep |-> Indeterminate, maxIterations |-> Indeterminate]
NoFineLocals ==
    [bestX |-> Indeterminate, bestY |-> Indeterminate, bestHits |-> Indeterminate,
     bestRMS |-> Indeterminate, stepSize |-> Indeterminate, iter |-> Indeterminate,
     improved |-> Indeterminate, dir |-> Indeterminate]

\* Mutant of directions: the second entry does not undo the first.
directions_NoWayBack ==
    << <<1000, 0>>, <<1000, 0>>, <<0, 1000>>, <<0, -1000>>,
       <<707, 707>>, <<-707, 707>>, <<707, -707>>, <<-707, -707>> >>

\* float directions[8][2], in thousandths.
directions ==
    << <<1000, 0>>, <<-1000, 0>>, <<0, 1000>>, <<0, -1000>>,
       <<707, 707>>, <<-707, 707>>, <<707, -707>>, <<-707, -707>> >>

Abs(n) == IF n < 0 THEN -n ELSE n

\* bestX + dir[0] * stepSize.
Step(best, d, stepSize) == best + (d * stepSize) \div Milli

\* The landscapes.  The spread is zero at the optimum (0, 0) only and grows
\* with the distance from it, in steps of a tenth of MinStep:
\*   "bowl"    the same in every direction of the table;
\*   "valley"  a narrow valley along the direction (3, 1), which is none of
\*             the eight directions of the table;
\*   "window"  a bowl whose bundle reaches the Sensor with all its rays
\*             inside the window |x| + |y| <= reach and with `low` rays
\*             outside it.
Grain == MinStep \div 10

SpreadAt(x, y) ==
    IF surf.kind = "valley"
    THEN (Abs(x) + Abs(y) + 2 * Abs(3 * y - x)) \div Grain
    ELSE (Abs(x) + Abs(y)) \div Grain

HitsAtFine(x, y) ==
    IF surf.kind = "window" /\ Abs(x) + Abs(y) > surf.reach
    THEN surf.low
    ELSE numRays

\* evaluatePosition's clearHits and bundle with the secondary at (x, y): the
\* Sensor's hit points afterwards.
BundleAt(x, y) == PointsOf([hits |-> HitsAtFine(x, y), spread |-> SpreadAt(x, y)])

\* What an uninitialised int or float can hold.
Garbage == {-1, 0, 1}

(***************************************************************************)
(* SpecTrace: clearHits, then numRays rays through traceRay.               *)
(***************************************************************************)
InitTrace ==
    /\ mirrors \in Systems
    /\ camera = "Camera"
    /\ numRays \in 1..MaxTraceRays
    /\ maxBounces \in 0..MaxBounces
    /\ hitPoints = <<>>
    /\ totalRaysTraced = 0
    /\ blockedRays = 0
    /\ pc = "idle"
    /\ i = 0
    /\ ray = NewRay(0)
    /\ bounce = 0
    /\ isect = [o \in Objects |-> NoIntersection]
    /\ secondary = [centerX |-> 0, centerY |-> 0]
    /\ land = <<>>
    /\ scan = [scanXMin |-> 1, scanXMax |-> 1, scanYMin |-> 0, scanYMax |-> 0]
    /\ result = NoResult
    /\ locals = NoLocals
    /\ surf = NoSurface
    /\ fineArgs = NoFineArgs
    /\ fine = NoFineLocals
    /\ batch = NoBatch
    /\ writers = NoWriters
    /\ input = NoCall
    /\ output = NoCall
    /\ viewer = NoViewer

\* Mutant of ClearHits: the points of the batch before stay on the Sensor.
ClearHits_KeepsPoints ==
    /\ pc = "idle"
    /\ totalRaysTraced' = 0
    /\ blockedRays' = 0
    /\ i' = 0
    /\ pc' = "bundle"
    /\ UNCHANGED <<varsSystem, varsViewer, varsBatch, varsCall, varsFine, varsOpt, hitPoints, ray, bounce, isect>>

\* CameraSensor::clearHits, then the bundle loop starts.
ClearHits ==
    /\ pc = "idle"
    /\ hitPoints' = <<>>
    /\ totalRaysTraced' = 0
    /\ blockedRays' = 0
    /\ i' = 0
    /\ pc' = "bundle"
    /\ UNCHANGED <<varsSystem, varsViewer, varsBatch, varsCall, varsFine, varsOpt, ray, bounce, isect>>

\* for (int i = 0; i < numRays; i++) { Ray ray(...); traceRay(ray, ...) }
StartRay ==
    /\ pc = "bundle"
    /\ i < numRays
    /\ ray' = NewRay(i)
    /\ bounce' = 0
    /\ isect' \in [Objects -> Intersections]
    /\ pc' = "trace"
    /\ UNCHANGED <<varsSystem, varsViewer, varsBatch, varsCall, varsFine, varsOpt, varsSensor, i>>

\* The bundle loop ends.
BundleDone ==
    /\ pc = "bundle"
    /\ i >= numRays
    /\ pc' = "idle"
    /\ UNCHANGED <<varsSystem, varsViewer, varsBatch, varsCall, varsFine, varsOpt, varsSensor, varsRay>>

\* if (closest.hit) { if (hitMirror == nullptr) { ray.path.push_back(..);
\* if (camera) camera->hitPoints.push_back(..); break; }
SensorHit ==
    /\ pc = "trace"
    /\ bounce < maxBounces
    /\ LET n == Nearest(bounce)
       IN  /\ n.closest.hit
           /\ n.hitMirror = "null"
    /\ ray' = [ray EXCEPT !.path = Append(@, HitPoint)]
    /\ hitPoints' = IF camera # "null" THEN Append(hitPoints, HitPoint) ELSE hitPoints
    /\ pc' = "break_sensor"
    /\ UNCHANGED <<varsSystem, varsViewer, varsBatch, varsCall, varsFine, varsOpt, totalRaysTraced, blockedRays, i, bounce, isect>>

\* if (bounce == 0 && hitMirror->getType() == "hyperbolic") { ray.bounces = -1;
\* if (camera) camera->blockedRays++; break; }
Blocked ==
    /\ pc = "trace"
    /\ bounce < maxBounces
    /\ LET n == Nearest(bounce)
       IN  /\ n.closest.hit
           /\ n.hitMirror # "null"
           /\ IsBlocking(bounce, n.hitMirror)
    /\ ray' = [ray EXCEPT !.bounces = -1]
    /\ blockedRays' = IF camera # "null" THEN blockedRays + 1 ELSE blockedRays
    /\ pc' = "break_blocked"
    /\ UNCHANGED <<varsSystem, varsViewer, varsBatch, varsCall, varsFine, varsOpt, hitPoints, totalRaysTraced, i, bounce, isect>>

\* ray.reflect(closest.point, closest.normal); the loop goes on with bounce+1
\* and the reflected ray meets the surfaces anew.
Reflect ==
    /\ pc = "trace"
    /\ bounce < maxBounces
    /\ LET n == Nearest(bounce)
       IN  /\ n.closest.hit
           /\ n.hitMirror # "null"
           /\ ~IsBlocking(bounce, n.hitMirror)
    /\ ray' = reflect(ray, HitPoint)
    /\ bounce' = bounce + 1
    /\ isect' \in [Objects -> Intersections]
    /\ pc' = "trace"
    /\ UNCHANGED <<varsSystem, varsViewer, varsBatch, varsCall, varsFine, varsOpt, varsSensor, i>>

\* } else { break; }
Miss ==
    /\ pc = "trace"
    /\ bounce < maxBounces
    /\ ~Nearest(bounce).closest.hit
    /\ pc' = "break_miss"
    /\ UNCHANGED <<varsSystem, varsViewer, varsBatch, varsCall, varsFine, varsOpt, varsSensor, varsRay>>

\* bounce < maxBounces fails: the loop ends without a break.
Exhausted ==
    /\ pc = "trace"
    /\ bounce >= maxBounces
    /\ pc' = "loop_end"
    /\ UNCHANGED <<varsSystem, varsViewer, varsBatch, varsCall, varsFine, varsOpt, varsSensor, varsRay>>

AfterLoop == {"break_sensor", "break_blocked", "break_miss", "loop_end"}

\* if (ray.bounces >= 0 && camera) camera->totalRaysTraced++; traceRay
\* returns and the bundle loop takes the next i.
FinishRay ==
    /\ pc \in AfterLoop
    /\ totalRaysTraced' = IF CountsAsTraced(ray) THEN totalRaysTraced + 1
                          ELSE totalRaysTraced
    /\ i' = i + 1
    /\ pc' = "bundle"
    /\ UNCHANGED <<varsSystem, varsViewer, varsBatch, varsCall, varsFine, varsOpt, hitPoints, blockedRays, ray, bounce, isect>>

NextTrace ==
    \/ ClearHits
    \/ StartRay
    \/ BundleDone
    \/ SensorHit
    \/ Blocked
    \/ Reflect
    \/ Miss
    \/ Exhausted
    \/ FinishRay

SpecTrace == InitTrace /\ [][NextTrace]_vars

(***************************************************************************)
(* SpecOpt: one call of TelescopeOptimizer::optimizeSecondaryPosition.     *)
(***************************************************************************)
\* The grids of at most MaxCells positions in one or two rows; X from 1, Y
\* from 0.
Scans ==
    {sc \in [scanXMin : {1}, scanXMax : 1..MaxCells,
             scanYMin : {0}, scanYMax : 0..1] :
        sc.scanXMax * (sc.scanYMax + 1) <= MaxCells}

\* The viewer's scene, and the systems the function refuses: no hyperbolic
\* mirror in the list, or no sensor.
OptSystems ==
    {[mirrors |-> SceneMirrors, camera |-> "Camera"],
     [mirrors |-> <<"Primary", "Camera">>, camera |-> "Camera"],
     [mirrors |-> BatchMirrors, camera |-> "null"]}

\* The viewer centres the X window on the secondary's current X and scans
\* from its current Y.
OriginalPosition ==
    [centerX |-> (scan.scanXMin + scan.scanXMax) \div 2, centerY |-> scan.scanYMin]

Optimizable == FindHyperbolic(1) # "null" /\ camera # "null"

InitOpt ==
    /\ \E sys \in OptSystems :
          /\ mirrors = sys.mirrors
          /\ camera = sys.camera
    /\ numRays \in 2..MaxRays
    /\ maxBounces = MaxBounces
    /\ scan \in Scans
    /\ \E nb \in 0..MaxBlocked : land \in [Grid -> Outcomes(numRays, nb)]
    /\ (~Optimizable =>
           /\ numRays = 2
           /\ scan.scanXMax = 1 /\ scan.scanYMax = 0
           /\ \A pos \in Grid : land[pos] = [hits |-> 0, spread |-> 0, blocked |-> 0])
    /\ secondary = OriginalPosition
    /\ hitPoints = <<>>
    /\ totalRaysTraced = 0
    /\ blockedRays = 0
    /\ result = NoResult
    /\ locals = NoLocals
    /\ surf = NoSurface
    /\ fineArgs = NoFineArgs
    /\ fine = NoFineLocals
    /\ batch = NoBatch
    /\ writers = NoWriters
    /\ input = NoCall
    /\ output = NoCall
    /\ viewer = NoViewer
    /\ pc = "opt_entry"
    /\ i = 0
    /\ ray = NewRay(0)
    /\ bounce = 0
    /\ isect = [o \in Objects |-> NoIntersection]

\* Lines 21-43: the result's defaults, the search for the secondary, the
\* early return, the saved position and the scan's locals.
OptEntry ==
    /\ pc = "opt_entry"
    /\ result' = [result EXCEPT !.maxHits = 0,
                                !.bestSecondaryX = scan.scanXMin,
                                !.bestSecondaryY = 0]
    /\ IF FindHyperbolic(1) = "null" \/ camera = "null"
       THEN /\ pc' = "returned"
            /\ locals' = locals
       ELSE /\ pc' = "scan"
            /\ locals' = [originalX |-> secondary.centerX,
                          originalY |-> secondary.centerY,
                          bestRMS |-> Rat(FLT_MAX, 1),
                          bestHitsForRMS |-> 0,
                          x |-> scan.scanXMin,
                          y |-> scan.scanYMin]
    /\ UNCHANGED <<varsSystem, varsViewer, varsBatch, varsCall, varsFine, varsSensor, varsRay, secondary, land, scan>>

\* Lines 47-78: the body of the scan loops at (x, y).
ScanStep ==
    /\ pc = "scan"
    /\ locals.x <= scan.scanXMax
    /\ LET pos == <<locals.x, locals.y>>
           cam == TraceBundle(pos)
           hits == Len(cam.hitPoints)
           currentRMS == getRMSSpotSize(cam.hitPoints)
           better == MeetsThreshold(hits, numRays) /\ Less(currentRMS, locals.bestRMS)
       IN  /\ secondary' = [centerX |-> pos[1], centerY |-> pos[2]]
           /\ hitPoints' = cam.hitPoints
           /\ totalRaysTraced' = cam.totalRaysTraced
           /\ blockedRays' = cam.blockedRays
           /\ result' =
                [result EXCEPT
                   !.scanData = IF pos[2] = 0 THEN Append(@, <<pos[1], hits>>) ELSE @,
                   !.maxHits = IF hits > @ THEN hits ELSE @,
                   !.bestSecondaryX = IF better THEN pos[1] ELSE @,
                   !.bestSecondaryY = IF better THEN pos[2] ELSE @]
           /\ locals' =
                NextCell([locals EXCEPT
                   !.bestRMS = IF better THEN currentRMS ELSE @,
                   !.bestHitsForRMS = IF better THEN hits ELSE @])
    /\ pc' = "scan"
    /\ UNCHANGED <<varsSystem, varsViewer, varsBatch, varsCall, varsFine, varsRay, land, scan>>

\* Line 83: the scan is over; if (bestHitsForRMS == 0) the grid is scanned
\* again.
ScanEnd ==
    /\ pc = "scan"
    /\ locals.x > scan.scanXMax
    /\ IF locals.bestHitsForRMS = 0
       THEN /\ pc' = "fallback"
            /\ locals' = [locals EXCEPT !.x = scan.scanXMin, !.y = scan.scanYMin]
       ELSE /\ pc' = "retrace"
            /\ locals' = locals
    /\ UNCHANGED <<varsSystem, varsViewer, varsBatch, varsCall, varsFine, varsSensor, varsRay, secondary, land, scan, result>>

\* Lines 86-103: the body of the fallback loops at (x, y). A match ends the
\* row (break); line 103 would end the scan but bestHitsForRMS is 0 here.
FallbackStep ==
    /\ pc = "fallback"
    /\ locals.x <= scan.scanXMax
    /\ LET pos == <<locals.x, locals.y>>
           cam == TraceBundle(pos)
           hits == Len(cam.hitPoints)
           match == FallbackMatches(hits, result.maxHits)
           rowEnds == match \/ locals.y + 1 > scan.scanYMax
       IN  /\ secondary' = [centerX |-> pos[1], centerY |-> pos[2]]
           /\ hitPoints' = cam.hitPoints
           /\ totalRaysTraced' = cam.totalRaysTraced
           /\ blockedRays' = cam.blockedRays
           /\ result' = [result EXCEPT
                            !.bestSecondaryX = IF match THEN pos[1] ELSE @,
                            !.bestSecondaryY = IF match THEN pos[2] ELSE @]
           /\ IF rowEnds /\ locals.bestHitsForRMS > 0
              THEN /\ pc' = "retrace"
                   /\ locals' = locals
              ELSE /\ pc' = "fallback"
                   /\ locals' = IF rowEnds THEN NextRow(locals) ELSE NextCell(locals)
    /\ UNCHANGED <<varsSystem, varsViewer, varsBatch, varsCall, varsFine, varsRay, land, scan>>

\* The fallback loops are over.
FallbackEnd ==
    /\ pc = "fallback"
    /\ locals.x > scan.scanXMax
    /\ pc' = "retrace"
    /\ UNCHANGED <<varsSystem, varsViewer, varsBatch, varsCall, varsFine, varsSensor, varsRay, varsOpt>>

\* Lines 107-123: restore, hitPercentage, then the bundle once more with the
\* secondary at the best position, for focusSpread.
Retrace ==
    /\ pc = "retrace"
    /\ LET pos == <<result.bestSecondaryX, result.bestSecondaryY>>
           cam == TraceBundle(pos)
       IN  /\ secondary' = [Restored(secondary, locals) EXCEPT
                               !.centerX = pos[1], !.centerY = pos[2]]
           /\ hitPoints' = cam.hitPoints
           /\ totalRaysTraced' = cam.totalRaysTraced
           /\ blockedRays' = cam.blockedRays
           /\ result' = [result EXCEPT
                            !.hitPercentage = Rat(100 * result.maxHits, numRays),
                            !.focusSpread = getRMSSpotSize(cam.hitPoints)]
    /\ pc' = "restore"
    /\ UNCHANGED <<varsSystem, varsViewer, varsBatch, varsCall, varsFine, varsRay, land, scan, locals>>

\* Lines 125-128: the secondary goes back and the result is returned.
Return ==
    /\ pc = "restore"
    /\ secondary' = Restored(secondary, locals)
    /\ pc' = "returned"
    /\ UNCHANGED <<varsSystem, varsViewer, varsBatch, varsCall, varsFine, varsSensor, varsRay, land, scan, result, locals>>

NextOpt ==
    \/ OptEntry
    \/ ScanStep
    \/ ScanEnd
    \/ FallbackStep
    \/ FallbackEnd
    \/ Retrace
    \/ Return

SpecOpt == InitOpt /\ [][NextOpt]_vars

(***************************************************************************)
(* SpecFine: one call of TelescopeOptimizer::fineOptimize.                 *)
(***************************************************************************)
Surfaces ==
    {[kind |-> "bowl"], [kind |-> "valley"]}
    \cup {[kind |-> "window", reach |-> r, low |-> l] :
             r \in {0, MinStep}, l \in 0..1}

\* The seeds: the optimum, and points on the floor of the valley.
Seeds == {[startX |-> 3 * k * MinStep, startY |-> k * MinStep] : k \in 0..MaxSeed}

InitFine ==
    /\ \E sys \in OptSystems :
          /\ mirrors = sys.mirrors
          /\ camera = sys.camera
    /\ numRays \in 2..MaxRays
    /\ maxBounces = MaxBounces
    /\ surf \in Surfaces
    /\ \E seed \in Seeds, initialStep \in {MinStep, 2 * MinStep},
          searchRadius \in {MinStep, 3 * MinStep},
          maxIterations \in 0..MaxIterations :
          fineArgs = [startX |-> seed.startX, startY |-> seed.startY,
                      searchRadius |-> searchRadius,
                      initialStep |-> initialStep, maxIterations |-> maxIterations]
    /\ (~Optimizable =>
           /\ numRays = 2
           /\ surf.kind = "bowl"
           /\ fineArgs.startX = 0 /\ fineArgs.initialStep = MinStep
           /\ fineArgs.searchRadius = MinStep
           /\ fineArgs.maxIterations = MaxIterations)
    /\ secondary = [centerX |-> fineArgs.startX, centerY |-> fineArgs.startY]
    /\ hitPoints = <<>>
    /\ totalRaysTraced = 0
    /\ blockedRays = 0
    /\ result = NoResult
    /\ locals = NoLocals
    /\ fine = NoFineLocals
    /\ batch = NoBatch
    /\ writers = NoWriters
    /\ input = NoCall
    /\ output = NoCall
    /\ viewer = NoViewer
    /\ land = <<>>
    /\ scan = [scanXMin |-> 1, scanXMax |-> 1, scanYMin |-> 0, scanYMax |-> 0]
    /\ pc = "fine_entry"
    /\ i = 0
    /\ ray = NewRay(0)
    /\ bounce = 0
    /\ isect = [o \in Objects |-> NoIntersection]

\* Lines 145-166: the result is declared without initialisers, the
\* secondary is looked up, and the call returns early or sets up the climb.
\* On the early return the caller reads the fields as the build left them.
FineEntry ==
    /\ pc = "fine_entry"
    /\ IF FindHyperbolic(1) = "null" \/ camera = "null"
       THEN /\ pc' = "returned"
            /\ result' \in [maxHits : Garbage, bestSecondaryX : Garbage,
                            bestSecondaryY : Garbage, hitPercentage : Garbage,
                            focusSpread : Garbage, scanData : {<<>>}]
            /\ fine' = fine
       ELSE /\ pc' = IF 0 < fineArgs.maxIterations THEN "fine_dir" ELSE "fine_final"
            /\ result' = result
            /\ fine' = [bestX |-> fineArgs.startX,
                        bestY |-> fineArgs.startY,
                        bestHits |-> 0,
                        bestRMS |-> Rat(FLT_MAX, 1),
                        stepSize |-> fineArgs.initialStep,
                        iter |-> 0,
                        improved |-> FALSE,
                        dir |-> 1]
    /\ UNCHANGED <<varsSystem, varsViewer, varsBatch, varsCall, varsSensor, varsRay, secondary, land, scan, locals,
                   surf, fineArgs>>

\* Mutant of Improves: an equal RMS counts as an improvement.
Improves_OrEqual(currentRMS, bestRMS) == ~Less(bestRMS, currentRMS)

\* currentRMS < bestRMS
Improves(currentRMS, bestRMS) == Less(currentRMS, bestRMS)

\* Lines 172-194: the body of the direction loop for directions[dir].
\* evaluatePosition moves the secondary, clears the Sensor, traces the
\* bundle and puts the secondary back.
FineCandidate ==
    /\ pc = "fine_dir"
    /\ LET dir == directions[fine.dir]
           testX == Step(fine.bestX, dir[1], fine.stepSize)
           testY == Step(fine.bestY, dir[2], fine.stepSize)
           cam == BundleAt(testX, testY)
           hits == Len(cam)
           currentRMS == getRMSSpotSize(cam)
           better == Improves(currentRMS, fine.bestRMS)
       IN  /\ hitPoints' = cam
           /\ totalRaysTraced' = numRays
           /\ blockedRays' = 0
           /\ fine' = [fine EXCEPT
                         !.bestHits = IF hits > @ THEN hits ELSE @,
                         !.bestRMS = IF better THEN currentRMS ELSE @,
                         !.bestX = IF better THEN testX ELSE @,
                         !.bestY = IF better THEN testY ELSE @,
                         !.improved = IF better THEN TRUE ELSE @,
                         !.dir = IF @ < Len(directions) THEN @ + 1 ELSE 1]
    /\ pc' = IF fine.dir < Len(directions) THEN "fine_dir" ELSE "fine_iter_end"
    /\ secondary' = secondary
    /\ UNCHANGED <<varsSystem, varsViewer, varsBatch, varsCall, varsRay, land, scan, result, locals, surf, fineArgs>>

\* Lines 196-200 and the loop header: halve the step if nothing improved,
\* leave the loop below the minimum step or at the end of the budget.
FineIterEnd ==
    /\ pc = "fine_iter_end"
    /\ LET stepSize == IF fine.improved THEN fine.stepSize ELSE fine.stepSize \div 2
           break == ~fine.improved /\ stepSize < MinStep
       IN  /\ fine' = [fine EXCEPT !.stepSize = stepSize,
                                   !.iter = IF break THEN @ ELSE @ + 1,
                                   !.improved = FALSE]
           /\ pc' = IF break \/ fine.iter + 1 >= fineArgs.maxIterations
                    THEN "fine_final" ELSE "fine_dir"
    /\ UNCHANGED <<varsSystem, varsViewer, varsBatch, varsCall, varsSensor, varsRay, varsOpt, surf, fineArgs>>

\* Lines 204-221: the result, then the bundle once more with the secondary
\* at the best position, for focusSpread.
FineFinish ==
    /\ pc = "fine_final"
    /\ LET cam == BundleAt(fine.bestX, fine.bestY)
       IN  /\ secondary' = [centerX |-> fine.bestX, centerY |-> fine.bestY]
           /\ hitPoints' = cam
           /\ totalRaysTraced' = numRays
           /\ blockedRays' = 0
           /\ result' = [maxHits |-> fine.bestHits,
                         bestSecondaryX |-> fine.bestX,
                         bestSecondaryY |-> fine.bestY,
                         hitPercentage |-> Rat(100 * fine.bestHits, numRays),
                         focusSpread |-> getRMSSpotSize(cam),
                         scanData |-> <<>>]
    /\ pc' = "returned"
    /\ UNCHANGED <<varsSystem, varsViewer, varsBatch, varsCall, varsRay, land, scan, locals, varsFine>>

NextFine ==
    \/ FineEntry
    \/ FineCandidate
    \/ FineIterEnd
    \/ FineFinish

SpecFine == InitFine /\ [][NextFine]_vars

\* fineOptimize is straight-line code and loops over calls that return: the
\* call goes on as long as it has a next step.  Every step changes pc, but
\* for the steps inside the direction loop, which change fine.dir.  The
\* calls are those with two rays; searchRadius is an argument the function
\* never reads.
InitFineLive == InitFine /\ numRays = 2 /\ fineArgs.searchRadius = MinStep

SpecFineLive ==
    /\ InitFineLive
    /\ [][NextFine]_vars
    /\ WF_pc(FineEntry \/ FineIterEnd \/ FineFinish)
    /\ WF_fine(FineCandidate)

(***************************************************************************)
(* SpecBatch: one call of BatchOptimizer::optimizeBatch.                   *)
(*                                                                         *)
(* Floats are binary32 here, because the score subtracts a small RMS from  *)
(* a large multiple of the hit percentage: a float is held as an integer   *)
(* count of 2^-12, and Float32 rounds a result to the 24 significant bits  *)
(* of the format (round to nearest, ties to even).  Hit points are in      *)
(* units of 2^-11 and the bundle has two rays, so that the square root in  *)
(* getRMSSpotSize is exact: two points d apart have an RMS of d / 2.       *)
(***************************************************************************)
FloatOne == 2^12

Float32(v) ==
    LET a == Abs(v)
        ulp == IF a < 2^24 THEN 1 ELSE IF a < 2^25 THEN 2 ELSE IF a < 2^26 THEN 4 ELSE 8
        lo == (a \div ulp) * ulp
        rest == a - lo
        r == IF 2 * rest < ulp THEN lo
             ELSE IF 2 * rest > ulp THEN lo + ulp
             ELSE IF (lo \div ulp) % 2 = 0 THEN lo ELSE lo + ulp
    IN  IF v < 0 THEN -r ELSE r

\* std::sqrt of a perfect square.
Sqrt(n) == CHOOSE r \in 0..n : r * r = n

\* CameraSensor::getRMSSpotSize as a float.
RMSFloat(pts) ==
    LET q == getRMSSpotSize(pts)
    IN  (2 * Sqrt(q.num)) \div Sqrt(q.den)

\* The secondary positions evaluateConfig scans, as offsets from
\* initialSecondaryX (two positions stand for the 51 of the code).
BatchScan == <<-1, 1>>

\* float bestRMS = 100000.0f;
BatchRMSMax == 100000 * FloatOne

\* What the two-ray bundle can leave on the Sensor at one position.
BatchOutcomes ==
    {[hits |-> 0, spread |-> 0, blocked |-> 0], [hits |-> 1, spread |-> 0, blocked |-> 0]}
    \cup {[hits |-> 2, spread |-> d, blocked |-> 0] : d \in 0..MaxBatchSpread}

\* A design: the outcome of the bundle at each scanned position.
Designs ==
    {<<o1, o2>> : o1 \in {o \in BatchOutcomes : o.hits = 1},
                  o2 \in BatchOutcomes}

\* hits > bestHits || (hits == bestHits && rms < bestRMS)
Prefer(hits, rms, acc) ==
    hits > acc.bestHits \/ (hits = acc.bestHits /\ rms < acc.bestRMS)

\* Lines 208-276: the scan loop from position k on.  The design holds an
\* outcome for each position the loop visits: for all of BatchScan, or for
\* none when initialSecondaryX is not a number and x <= scanXMax is false
\* from the start.
RECURSIVE BatchScanFrom(_, _, _)
BatchScanFrom(k, design, acc) ==
    IF k > Len(design) THEN acc
    ELSE LET pts == PointsOf(design[k])
             hits == Len(pts)
             rms == RMSFloat(pts)
         IN  BatchScanFrom(k + 1, design,
                 IF Prefer(hits, rms, acc)
                 THEN [bestHits |-> hits, bestX |-> BatchScan[k], bestY |-> 0,
                       bestRMS |-> rms]
                 ELSE acc)

\* result.score = result.hitPercentage * 100.0f - result.rmsSpotSize;
Score(hitPercentage, rmsSpotSize) ==
    Float32(Float32(hitPercentage * 100) - rmsSpotSize)

\* BatchOptimizer::evaluateConfig, its return value.
evaluateConfig(config) ==
    IF camera = "null"
    THEN [config |-> config.rowIndex, cameraHits |-> 0, hitPercentage |-> 0,
          rmsSpotSize |-> 0, bestSecondaryX |-> 0, bestSecondaryY |-> 0, score |-> 0]
    ELSE LET best == BatchScanFrom(1, config.design,
                        [bestHits |-> 0, bestX |-> 0, bestY |-> 0, bestRMS |-> BatchRMSMax])
             hitPercentage == Float32((100 * FloatOne * best.bestHits) \div numRays)
         IN  [config |-> config.rowIndex,
              cameraHits |-> best.bestHits,
              hitPercentage |-> hitPercentage,
              rmsSpotSize |-> best.bestRMS,
              bestSecondaryX |-> best.bestX,
              bestSecondaryY |-> best.bestY,
              score |-> Score(hitPercentage, best.bestRMS)]

\* Mutant of ScoreGreater: the comparator is turned around.
ScoreGreater_Less(a, b) == a.score < b.score

\* The comparator of the sort: a.score > b.score.
ScoreGreater(a, b) == a.score > b.score

\* What std::sort may leave: any arrangement of the elements in which no
\* element is followed by one the comparator puts before it.  The order of
\* elements the comparator does not tell apart is unspecified.
Sorted(v) ==
    LET n == Len(v)
    IN  {[k \in 1..n |-> v[p[k]]] :
            p \in {q \in [1..n -> 1..n] :
                     /\ \A a, b \in 1..n : a # b => q[a] # q[b]
                     /\ \A a, b \in 1..n : a < b => ~ScoreGreater(v[q[b]], v[q[a]])}}

\* if (results.size() > static_cast<size_t>(topN)) results.resize(topN);
Resized(v, topN) == IF Len(v) > topN THEN SubSeq(v, 1, topN) ELSE v

InitBatch ==
    /\ mirrors = BatchMirrors
    /\ camera = "Camera"
    /\ numRays = 2
    /\ maxBounces = MaxBounces
    /\ \E n \in 0..MaxConfigs, topN \in 0..MaxConfigs :
       \E ds \in [1..n -> Designs] :
          batch = [configs |-> [k \in 1..n |-> [rowIndex |-> k - 1, design |-> ds[k]]],
                   topN |-> topN,
                   results |-> <<>>]
    /\ writers = NoWriters
    /\ secondary = [centerX |-> 0, centerY |-> 0]
    /\ hitPoints = <<>>
    /\ totalRaysTraced = 0
    /\ blockedRays = 0
    /\ result = NoResult
    /\ locals = NoLocals
    /\ surf = NoSurface
    /\ fineArgs = NoFineArgs
    /\ fine = NoFineLocals
    /\ input = NoCall
    /\ output = NoCall
    /\ viewer = NoViewer
    /\ land = <<>>
    /\ scan = [scanXMin |-> 1, scanXMax |-> 1, scanYMin |-> 0, scanYMax |-> 0]
    /\ pc = "batch_eval"
    /\ i = 0
    /\ ray = NewRay(0)
    /\ bounce = 0
    /\ isect = [o \in Objects |-> NoIntersection]

\* Lines 308-313: evaluateConfig for the next configuration.  It builds its
\* own primary and secondary, moves that secondary along the scan, and
\* clears and fills the Sensor it was handed: the caller's, the same for
\* every configuration.  The Sensor is left with the bundle of the last
\* scanned position.
BatchEvaluate ==
    /\ pc = "batch_eval"
    /\ Len(batch.results) < Len(batch.configs)
    /\ LET config == batch.configs[Len(batch.results) + 1]
           own == {<<"Primary", config.rowIndex>>, <<"Secondary", config.rowIndex>>}
           written == IF camera = "null" THEN {}
                      ELSE {<<"Secondary", config.rowIndex>>, <<"Camera", -1>>}
       IN  /\ batch' = [batch EXCEPT !.results = Append(@, evaluateConfig(config))]
           /\ writers' = [o \in DOMAIN writers \cup own |->
                            (IF o \in DOMAIN writers THEN writers[o] ELSE {})
                            \cup (IF o \in written THEN {config.rowIndex} ELSE {})]
           /\ hitPoints' = PointsOf(config.design[Len(BatchScan)])
           /\ totalRaysTraced' = numRays
           /\ blockedRays' = 0
    /\ pc' = "batch_eval"
    /\ UNCHANGED <<varsSystem, varsViewer, varsRay, varsOpt, varsFine, varsCall>>

\* Lines 322-326: every configuration is evaluated; std::sort by score.
BatchSort ==
    /\ pc = "batch_eval"
    /\ Len(batch.results) = Len(batch.configs)
    /\ \E v \in Sorted(batch.results) : batch' = [batch EXCEPT !.results = v]
    /\ pc' = "batch_top"
    /\ UNCHANGED <<varsSystem, varsViewer, varsSensor, varsRay, varsOpt, varsFine, varsCall, writers>>

\* Lines 328-334: keep the first topN and return.
BatchReturn ==
    /\ pc = "batch_top"
    /\ batch' = [batch EXCEPT !.results = Resized(@, batch.topN)]
    /\ pc' = "returned"
    /\ UNCHANGED <<varsSystem, varsViewer, varsSensor, varsRay, varsOpt, varsFine, varsCall, writers>>

NextBatch ==
    \/ BatchEvaluate
    \/ BatchSort
    \/ BatchReturn

SpecBatch == InitBatch /\ [][NextBatch]_vars

(***************************************************************************)
(* SpecEval: one call of BatchOptimizer::evaluateConfig.                   *)
(*                                                                         *)
(* The loaders read the fields of a row with std::stof, which also reads   *)
(* "nan"; nothing checks them.  initialSecondaryX = primaryCenterX -       *)
(* primaryF + mirrorSeparation (line 175) is then not a number, and the    *)
(* scan loop, whose test is x <= scanXMax, is left before its first pass.  *)
(***************************************************************************)
\* The designs: an outcome at each position of the scan, or no position.
EvalDesigns == {<<>>} \cup {<<o1, o2>> : o1 \in BatchOutcomes, o2 \in BatchOutcomes}

InitEval ==
    /\ \E design \in EvalDesigns :
          input = [name |-> "evaluateConfig",
                   config |-> [rowIndex |-> 0, design |-> design]]
    /\ output = NoCall
    /\ viewer = NoViewer
    /\ pc = "eval_call"
    /\ mirrors = BatchMirrors
    /\ camera \in {"Camera", "null"}
    /\ numRays = 2
    /\ maxBounces = MaxBounces
    /\ hitPoints \in {<<>>, PointsOf([hits |-> 2, spread |-> 1, blocked |-> 0])}
    /\ totalRaysTraced = Len(hitPoints)
    /\ blockedRays = 0
    /\ batch = NoBatch
    /\ writers = NoWriters
    /\ secondary = [centerX |-> 0, centerY |-> 0]
    /\ result = NoResult
    /\ locals = NoLocals
    /\ surf = NoSurface
    /\ fineArgs = NoFineArgs
    /\ fine = NoFineLocals
    /\ land = <<>>
    /\ scan = [scanXMin |-> 1, scanXMax |-> 1, scanYMin |-> 0, scanYMax |-> 0]
    /\ i = 0
    /\ ray = NewRay(0)
    /\ bounce = 0
    /\ isect = [o \in Objects |-> NoIntersection]

\* The call: the result, and the Sensor left with the bundle of the last
\* position scanned, if there was one.
EvaluateConfig ==
    /\ pc = "eval_call"
    /\ output' = evaluateConfig(input.config)
    /\ LET design == input.config.design
       IN  IF camera # "null" /\ design # <<>>
           THEN /\ hitPoints' = PointsOf(design[Len(design)])
                /\ totalRaysTraced' = numRays
                /\ blockedRays' = 0
           ELSE UNCHANGED varsSensor
    /\ pc' = "eval_done"
    /\ UNCHANGED <<varsSystem, varsViewer, varsRay, varsOpt, varsFine, varsBatch, input>>

NextEval == EvaluateConfig

SpecEval == InitEval /\ [][NextEval]_vars

(***************************************************************************)
(* SpecView: a configuration is evaluated by evaluateConfig, its result is *)
(* saved to the results file and loaded by the viewer, and the viewer      *)
(* builds the telescope from it with buildTelescopeFromConfig.             *)
(*                                                                         *)
(* Lengths are in thousandths.  The results file holds its floats with two *)
(* decimals (std::fixed << std::setprecision(2)).                          *)
(***************************************************************************)
\* float primaryCenterX = 500.0f;  // Fixed position
EvalPrimaryCenterX == 500 * Milli

\* float primaryCenterX = 1400.0f; in the viewer's main
ViewerPrimaryCenterX == 1400 * Milli

\* primaryCenterX - config.primaryF + config.mirrorSeparation
InitialSecondaryX(config, primaryCenterX) ==
    primaryCenterX - config.primaryF + config.mirrorSeparation

\* A float as the results file holds it: rounded to two decimals.
Fixed2(v) ==
    LET r == ((Abs(v) + 5) \div 10) * 10
    IN  IF v < 0 THEN -r ELSE r

\* float scanXStep = 2.0f; the scanned positions near the initial one.
ScanOffsets == {2 * Milli * k : k \in -MaxScanSteps..MaxScanSteps}

\* Lines 40-51 of ConfigBuilder.h: where the viewer puts the secondary.
ViewerSecondary(config, primaryCenterX) ==
    [centerX |-> IF config.bestSecondaryX > 0 THEN config.bestSecondaryX
                 ELSE InitialSecondaryX(config, primaryCenterX),
     centerY |-> config.bestSecondaryY]

InitView ==
    /\ \E primaryF \in {800 * Milli, 800 * Milli + 4},
          mirrorSeparation \in {450 * Milli, 250 * Milli},
          offset \in ScanOffsets,
          primaryCenterX \in {EvalPrimaryCenterX, ViewerPrimaryCenterX} :
          input = [name |-> "config",
                   config |-> [primaryF |-> primaryF,
                               mirrorSeparation |-> mirrorSeparation],
                   offset |-> offset,
                   primaryCenterX |-> primaryCenterX]
    /\ output = NoCall
    /\ viewer = NoViewer
    /\ pc = "view_eval"
    /\ mirrors = BatchMirrors
    /\ camera = "Camera"
    /\ numRays = 2
    /\ maxBounces = MaxBounces
    /\ batch = NoBatch
    /\ writers = NoWriters
    /\ secondary = [centerX |-> 0, centerY |-> 0]
    /\ hitPoints = <<>>
    /\ totalRaysTraced = 0
    /\ blockedRays = 0
    /\ result = NoResult
    /\ locals = NoLocals
    /\ surf = NoSurface
    /\ fineArgs = NoFineArgs
    /\ fine = NoFineLocals
    /\ land = <<>>
    /\ scan = [scanXMin |-> 1, scanXMax |-> 1, scanYMin |-> 0, scanYMax |-> 0]
    /\ i = 0
    /\ ray = NewRay(0)
    /\ bounce = 0
    /\ isect = [o \in Objects |-> NoIntersection]

\* evaluateConfig finds its best position at input.offset from the initial
\* one, in the system whose primary is at EvalPrimaryCenterX; the row goes
\* to the results file.
ViewEvaluateAndSave ==
    /\ pc = "view_eval"
    /\ LET bestX == InitialSecondaryX(input.config, EvalPrimaryCenterX) + input.offset
       IN  output' = [name |-> "row",
                      bestSecondaryX |-> Fixed2(bestX),
                      bestSecondaryY |-> Fixed2(0),
                      primaryF |-> Fixed2(input.config.primaryF),
                      mirrorSeparation |-> Fixed2(input.config.mirrorSeparation)]
    /\ pc' = "view_saved"
    /\ UNCHANGED <<varsSystem, varsViewer, varsSensor, varsRay, varsOpt, varsFine, varsBatch, input>>

\* loadResultsFromCSV, then rebuildConfiguration with the viewer's
\* primaryCenterX.
ViewRebuild ==
    /\ pc = "view_saved"
    /\ secondary' = ViewerSecondary(output, input.primaryCenterX)
    /\ pc' = "view_built"
    /\ UNCHANGED <<varsSystem, varsViewer, varsSensor, varsRay, varsFine, varsBatch, varsCall,
                   land, scan, result, locals>>

NextView == ViewEvaluateAndSave \/ ViewRebuild

SpecView == InitView /\ [][NextView]_vars

(***************************************************************************)
(* SpecViewer: the event loop of the viewer, as far as it touches          *)
(* availableConfigs and currentConfigIndex.  A configuration is held by    *)
(* its primaryDiameter, the field that every frame reads.  Each pass of    *)
(* the loop handles the pending events and then draws a frame.             *)
(***************************************************************************)
\* What loadResultsFromCSV can return: the rows of the file, none if the
\* file is missing or holds no row of 18 fields.
LoadedFiles ==
    UNION {[1..n -> {2, 4}] : n \in 0..MaxLoaded}

\* Lines 361-383 and 420: the file is loaded, the default configuration is
\* used if it gave nothing, and the first configuration is built.
InitViewer ==
    /\ \E file \in LoadedFiles :
          LET configs == IF file = <<>> THEN <<2>> ELSE file
          IN  viewer = [availableConfigs |-> configs, currentConfigIndex |-> 0,
                        shown |-> configs[1]]
    /\ pc = "viewer_events"
    /\ input = NoCall
    /\ output = NoCall
    /\ mirrors = SceneMirrors
    /\ camera = "Camera"
    /\ numRays = 2
    /\ maxBounces = MaxBounces
    /\ batch = NoBatch
    /\ writers = NoWriters
    /\ secondary = [centerX |-> 0, centerY |-> 0]
    /\ hitPoints = <<>>
    /\ totalRaysTraced = 0
    /\ blockedRays = 0
    /\ result = NoResult
    /\ locals = NoLocals
    /\ surf = NoSurface
    /\ fineArgs = NoFineArgs
    /\ fine = NoFineLocals
    /\ land = <<>>
    /\ scan = [scanXMin |-> 1, scanXMax |-> 1, scanYMin |-> 0, scanYMax |-> 0]
    /\ i = 0
    /\ ray = NewRay(0)
    /\ bounce = 0
    /\ isect = [o \in Objects |-> NoIntersection]

\* availableConfigs[index], read with operator[], which checks nothing:
\* the element, and past the end of the vector whatever the memory holds or
\* the end of the process.  The outcome is the configuration drawn and where
\* the program goes on.
ReadConfig(configs, index) ==
    IF 0 <= index /\ index < Len(configs)
    THEN {[shown |-> configs[index + 1], pc |-> "viewer_events"]}
    ELSE {[shown |-> g, pc |-> "viewer_events"] : g \in Garbage}
         \cup {[shown |-> viewer.shown, pc |-> "crashed"]}

\* Lines 554-558: the Prev button, with rebuildConfiguration.
PrevConfig ==
    /\ pc = "viewer_events"
    /\ viewer.currentConfigIndex > 0
    /\ \E r \in ReadConfig(viewer.availableConfigs, viewer.currentConfigIndex - 1) :
          /\ viewer' = [viewer EXCEPT !.currentConfigIndex = @ - 1, !.shown = r.shown]
          /\ pc' = r.pc
    /\ UNCHANGED <<varsSystem, varsSensor, varsRay, varsOpt, varsFine, varsBatch, varsCall>>

\* Lines 560-564: the Next button, with rebuildConfiguration.
NextConfig ==
    /\ pc = "viewer_events"
    /\ viewer.currentConfigIndex < Len(viewer.availableConfigs) - 1
    /\ \E r \in ReadConfig(viewer.availableConfigs, viewer.currentConfigIndex + 1) :
          /\ viewer' = [viewer EXCEPT !.currentConfigIndex = @ + 1, !.shown = r.shown]
          /\ pc' = r.pc
    /\ UNCHANGED <<varsSystem, varsSensor, varsRay, varsOpt, varsFine, varsBatch, varsCall>>

\* Lines 566-573: the Load CSV button.  The vector is assigned before it is
\* looked at; the index is reset and the telescope rebuilt only if the file
\* gave a configuration.
LoadConfigs ==
    /\ pc = "viewer_events"
    /\ \E file \in LoadedFiles :
          IF file # <<>>
          THEN \E r \in ReadConfig(file, 0) :
                  /\ viewer' = [availableConfigs |-> file, currentConfigIndex |-> 0,
                                shown |-> r.shown]
                  /\ pc' = r.pc
          ELSE /\ viewer' = [viewer EXCEPT !.availableConfigs = file]
               /\ pc' = pc
    /\ UNCHANGED <<varsSystem, varsSensor, varsRay, varsOpt, varsFine, varsBatch, varsCall>>

\* The events of this pass are handled; the frame is drawn next.
EventsDone ==
    /\ pc = "viewer_events"
    /\ pc' = "viewer_frame"
    /\ UNCHANGED <<varsSystem, varsViewer, varsSensor, varsRay, varsOpt, varsFine, varsBatch, varsCall>>

\* Lines 705-711, 750-751 and 783: the frame reads
\* availableConfigs[currentConfigIndex].
DrawFrame ==
    /\ pc = "viewer_frame"
    /\ \E r \in ReadConfig(viewer.availableConfigs, viewer.currentConfigIndex) :
          /\ viewer' = [viewer EXCEPT !.shown = r.shown]
          /\ pc' = r.pc
    /\ UNCHANGED <<varsSystem, varsSensor, varsRay, varsOpt, varsFine, varsBatch, varsCall>>

NextViewer ==
    \/ PrevConfig
    \/ NextConfig
    \/ LoadConfigs
    \/ EventsDone
    \/ DrawFrame

SpecViewer == InitViewer /\ [][NextViewer]_vars

(***************************************************************************)
(* SpecHyp: one call of HyperbolicMirror::intersect.                       *)
(*                                                                         *)
(* The mirror and the ray are drawn from integer data for which the        *)
(* doubles of the code are exact: the discriminant is a perfect square and *)
(* the roots are integers.  The three quadratic coefficients are scaled by *)
(* a^2 b^2 > 0, which changes neither the roots nor any sign tested.  At   *)
(* an exact root the three Newton steps leave t where it is.               *)
(***************************************************************************)
\* n / d on doubles, where d divides n.
Quot(n, d) ==
    LET q == Abs(n) \div Abs(d)
    IN  IF (n < 0) = (d < 0) THEN q ELSE -q

RECURSIVE SqrtBetween(_, _, _)
SqrtBetween(n, lo, hi) ==
    IF lo >= hi THEN lo
    ELSE LET mid == (lo + hi + 1) \div 2
         IN  IF mid * mid <= n THEN SqrtBetween(n, mid, hi)
             ELSE SqrtBetween(n, lo, mid - 1)

\* std::sqrt, rounded down.
FloorSqrt(n) == SqrtBetween(n, 0, 2^15)

\* The quadratic of lines 291-298 for mirror m and ray r.
Quadratic(m, r) ==
    LET ox == r.originX - m.centerX
        oy == r.originY - m.centerY
        dx == r.dx
        dy == r.dy
        aa == m.a * m.a
        bb == m.b * m.b
    IN  [ox |-> ox, oy |-> oy,
         A |-> dx * dx * bb - dy * dy * aa,
         B |-> 2 * (ox * dx * bb - oy * dy * aa),
         C |-> ox * ox * bb - oy * oy * aa - aa * bb]

Discriminant(q) == q.B * q.B - 4 * q.A * q.C

\* The doubles of the computation are exact for m and r.
ExactCase(m, r) ==
    LET q == Quadratic(m, r)
        disc == Discriminant(q)
        root == FloorSqrt(disc)
    IN  IF q.A = 0
        THEN q.B # 0 => Quot(-q.C, q.B) * q.B = -q.C
        ELSE disc >= 0 =>
                /\ root * root = disc
                /\ Quot(-q.B - root, 2 * q.A) * 2 * q.A = -q.B - root
                /\ Quot(-q.B + root, 2 * q.A) * 2 * q.A = -q.B + root

\* Lines 316-320: both roots are ahead of the ray.
PickRoot(useLeftBranch, t1, t2, x1, x2) ==
    IF useLeftBranch
    THEN (IF x1 < x2 THEN t1 ELSE t2)
    ELSE (IF x1 > x2 THEN t1 ELSE t2)

\* Lines 300-328: the parameter t of the hit, or -1.  t > EPSILON is t > 0
\* on integers.
SolveT(m, r) ==
    LET q == Quadratic(m, r)
        disc == Discriminant(q)
    IN  IF q.A = 0
        THEN (IF q.B # 0 THEN Quot(-q.C, q.B) ELSE -1)
        ELSE IF disc >= 0
             THEN LET sqrtDisc == FloorSqrt(disc)
                      t1 == Quot(-q.B - sqrtDisc, 2 * q.A)
                      t2 == Quot(-q.B + sqrtDisc, 2 * q.A)
                  IN  IF t1 > 0 /\ t2 > 0
                      THEN PickRoot(m.useLeftBranch, t1, t2,
                                    q.ox + t1 * r.dx, q.ox + t2 * r.dx)
                      ELSE IF t1 > 0 THEN t1
                      ELSE IF t2 > 0 THEN t2
                      ELSE -1
             ELSE -1

\* HyperbolicMirror::intersect, without the normal.
intersectHyperbolic(m, r) ==
    LET q == Quadratic(m, r)
        t == SolveT(m, r)
        yHit == q.oy + t * r.dy + m.centerY
    IN  IF t > 0 /\ yHit >= m.yMin /\ yHit <= m.yMax
        THEN [hit |-> TRUE, x |-> q.ox + t * r.dx + m.centerX, y |-> yHit,
              distance |-> t]
        ELSE [hit |-> FALSE, x |-> 0, y |-> 0, distance |-> FLT_MAX]

HypMirrors ==
    [centerX : {0, 7}, centerY : {0}, a : {3}, b : {3, 4},
     yMin : {-5}, yMax : {5}, useLeftBranch : BOOLEAN]

HypRays(m) ==
    {r \in [originX : (m.centerX - MaxOrigin)..(m.centerX + MaxOrigin),
            originY : (m.centerY - 4)..(m.centerY + 4),
            dx : {-1, 0, 1}, dy : {-1, 0, 1}] :
        /\ (r.dx # 0 \/ r.dy # 0)
        /\ ExactCase(m, r)}

InitHyp ==
    /\ \E m \in HypMirrors : \E r \in HypRays(m) :
          input = [name |-> "intersect", mirror |-> m, ray |-> r]
    /\ output = NoCall
    /\ viewer = NoViewer
    /\ pc = "hyp_call"
    /\ mirrors = BatchMirrors
    /\ camera = "Camera"
    /\ numRays = 2
    /\ maxBounces = MaxBounces
    /\ batch = NoBatch
    /\ writers = NoWriters
    /\ secondary = [centerX |-> 0, centerY |-> 0]
    /\ hitPoints = <<>>
    /\ totalRaysTraced = 0
    /\ blockedRays = 0
    /\ result = NoResult
    /\ locals = NoLocals
    /\ surf = NoSurface
    /\ fineArgs = NoFineArgs
    /\ fine = NoFineLocals
    /\ land = <<>>
    /\ scan = [scanXMin |-> 1, scanXMax |-> 1, scanYMin |-> 0, scanYMax |-> 0]
    /\ i = 0
    /\ ray = NewRay(0)
    /\ bounce = 0
    /\ isect = [o \in Objects |-> NoIntersection]

\* The call.
HypIntersect ==
    /\ pc = "hyp_call"
    /\ output' = intersectHyperbolic(input.mirror, input.ray)
    /\ pc' = "hyp_done"
    /\ UNCHANGED <<varsSystem, varsViewer, varsSensor, varsRay, varsOpt, varsFine, varsBatch, input>>

NextHyp == HypIntersect

SpecHyp == InitHyp /\ [][NextHyp]_vars

(***************************************************************************)
(* SpecBuild: the primary mirror built from one OpticalConfig, by          *)
(* BatchOptimizer::evaluateConfig and by                                   *)
(* ConfigBuilder::buildTelescopeFromConfig.  Neither of them, nor the CSV  *)
(* loaders, rejects a configuration, so every pair of diameters is an      *)
(* input.  Diameters are even, so that the halves are exact.               *)
(***************************************************************************)
Diameters == {2 * k : k \in 1..MaxHalfDiameter}

OpticalConfigs == [primaryDiameter : Diameters, secondaryDiameter : Diameters]

\* ParabolicMirror(f, ymin, ymax, cx, name, holeR)
ParabolicMirror(ymin, ymax, holeR) ==
    [yMin |-> ymin, yMax |-> ymax, holeRadius |-> holeR]

\* BatchOptimizer.cpp:151-164
evaluateConfigPrimary(config) ==
    LET primaryYMax == config.primaryDiameter \div 2
        primaryYMin == -primaryYMax
        holeRadius == config.secondaryDiameter \div 2 + Clearance
    IN  ParabolicMirror(primaryYMin, primaryYMax, holeRadius)

\* ConfigBuilder.h:25-38
buildTelescopeFromConfigPrimary(config) ==
    LET primaryYMax == config.primaryDiameter \div 2
        primaryYMin == -primaryYMax
        holeRadius == config.secondaryDiameter \div 2
    IN  ParabolicMirror(primaryYMin, primaryYMax, holeRadius)

InitBuild ==
    /\ \E config \in OpticalConfigs : input = [name |-> "config", config |-> config]
    /\ output = NoCall
    /\ viewer = NoViewer
    /\ pc = "build_call"
    /\ mirrors = BatchMirrors
    /\ camera = "Camera"
    /\ numRays = 2
    /\ maxBounces = MaxBounces
    /\ batch = NoBatch
    /\ writers = NoWriters
    /\ secondary = [centerX |-> 0, centerY |-> 0]
    /\ hitPoints = <<>>
    /\ totalRaysTraced = 0
    /\ blockedRays = 0
    /\ result = NoResult
    /\ locals = NoLocals
    /\ surf = NoSurface
    /\ fineArgs = NoFineArgs
    /\ fine = NoFineLocals
    /\ land = <<>>
    /\ scan = [scanXMin |-> 1, scanXMax |-> 1, scanYMin |-> 0, scanYMax |-> 0]
    /\ i = 0
    /\ ray = NewRay(0)
    /\ bounce = 0
    /\ isect = [o \in Objects |-> NoIntersection]

BuildInEvaluateConfig ==
    /\ pc = "build_call"
    /\ output' = [name |-> "evaluateConfig",
                  primary |-> evaluateConfigPrimary(input.config)]
    /\ pc' = "built"
    /\ UNCHANGED <<varsSystem, varsViewer, varsSensor, varsRay, varsOpt, varsFine, varsBatch, input>>

BuildTelescopeFromConfig ==
    /\ pc = "build_call"
    /\ output' = [name |-> "buildTelescopeFromConfig",
                  primary |-> buildTelescopeFromConfigPrimary(input.config)]
    /\ pc' = "built"
    /\ UNCHANGED <<varsSystem, varsViewer, varsSensor, varsRay, varsOpt, varsFine, varsBatch, input>>

NextBuild == BuildInEvaluateConfig \/ BuildTelescopeFromConfig

SpecBuild == InitBuild /\ [][NextBuild]_vars

(***************************************************************************)
(* SpecPar: one call of ParabolicMirror::intersect.                        *)
(*                                                                         *)
(* Lengths are integers, counted in units of EPSILON, so that the          *)
(* tolerances of the code are visible; the inputs are those for which the  *)
(* doubles of the code are exact.  The coefficients a, b, c of the code    *)
(* are scaled by 4 * focalLength > 0: a and b are pure numbers there, and  *)
(* at this scale |a| < EPSILON is a = 0 and |b| > EPSILON is b # 0.  At an *)
(* exact root the three Newton steps leave t where it is.                  *)
(***************************************************************************)
\* Lines 35-37, times 4 * focalLength.
ParQuadratic(m, r) ==
    [a |-> r.dy * r.dy,
     b |-> 4 * m.focalLength * r.dx + 2 * r.originY * r.dy,
     c |-> 4 * m.focalLength * (r.originX - m.centerX) + r.originY * r.originY]

\* The doubles of the computation are exact for m and r.
ParExactCase(m, r) ==
    LET q == ParQuadratic(m, r)
        disc == q.b * q.b - 4 * q.a * q.c
        root == FloorSqrt(disc)
    IN  IF q.a = 0
        THEN q.b # 0 => Quot(-q.c, q.b) * q.b = -q.c
        ELSE disc >= 0 =>
                /\ root * root = disc
                /\ Quot(-q.b - root, 2 * q.a) * 2 * q.a = -q.b - root
                /\ Quot(-q.b + root, 2 * q.a) * 2 * q.a = -q.b + root

\* Lines 39-52: the parameter t of the hit, or -1.
ParSolveT(m, r) ==
    LET q == ParQuadratic(m, r)
        disc == q.b * q.b - 4 * q.a * q.c
    IN  IF q.a = 0
        THEN (IF q.b # 0 THEN Quot(-q.c, q.b) ELSE -1)
        ELSE IF disc >= 0
             THEN LET sqrtDisc == FloorSqrt(disc)
                      t1 == Quot(-q.b - sqrtDisc, 2 * q.a)
                      t2 == Quot(-q.b + sqrtDisc, 2 * q.a)
                  IN  IF t1 > EPSILON THEN t1
                      ELSE IF t2 > EPSILON THEN t2
                      ELSE -1
             ELSE -1

\* Mutant of InYRange: the range is taken without tolerance.
InYRange_Exact(m, yHit) == yHit >= m.yMin /\ yHit <= m.yMax

\* yHit >= yMin - EPSILON && yHit <= yMax + EPSILON
InYRange(m, yHit) == yHit >= m.yMin - EPSILON /\ yHit <= m.yMax + EPSILON

\* holeRadius > 0.0f && std::abs(yHit) < holeRadius
InBore(m, yHit) == m.holeRadius > 0 /\ Abs(yHit) < m.holeRadius

\* ParabolicMirror::intersect, without the normal.
intersectParabolic(m, r) ==
    LET t == ParSolveT(m, r)
        yHit == r.originY + t * r.dy
    IN  IF t > EPSILON /\ InYRange(m, yHit) /\ ~InBore(m, yHit)
        THEN [hit |-> TRUE, x |-> r.originX + t * r.dx, y |-> yHit, distance |-> t]
        ELSE [hit |-> FALSE, x |-> 0, y |-> 0, distance |-> FLT_MAX]

ParMirrors ==
    {[focalLength |-> f, yMin |-> -half, yMax |-> half, centerX |-> cx,
      holeRadius |-> hole] :
        f \in {1, 2}, half \in {3, 4}, cx \in {0, 12}, hole \in {0, 2}}

ParRays(m) ==
    {r \in [originX : (m.centerX - 12)..(m.centerX + 2),
            originY : -MaxHeight..MaxHeight,
            dx : {-1, 0, 1}, dy : {-1, 0, 1}] :
        /\ (r.dx # 0 \/ r.dy # 0)
        /\ ParExactCase(m, r)}

InitPar ==
    /\ \E m \in ParMirrors : \E r \in ParRays(m) :
          input = [name |-> "intersect", mirror |-> m, ray |-> r]
    /\ output = NoCall
    /\ viewer = NoViewer
    /\ pc = "par_call"
    /\ mirrors = BatchMirrors
    /\ camera = "Camera"
    /\ numRays = 2
    /\ maxBounces = MaxBounces
    /\ batch = NoBatch
    /\ writers = NoWriters
    /\ secondary = [centerX |-> 0, centerY |-> 0]
    /\ hitPoints = <<>>
    /\ totalRaysTraced = 0
    /\ blockedRays = 0
    /\ result = NoResult
    /\ locals = NoLocals
    /\ surf = NoSurface
    /\ fineArgs = NoFineArgs
    /\ fine = NoFineLocals
    /\ land = <<>>
    /\ scan = [scanXMin |-> 1, scanXMax |-> 1, scanYMin |-> 0, scanYMax |-> 0]
    /\ i = 0
    /\ ray = NewRay(0)
    /\ bounce = 0
    /\ isect = [o \in Objects |-> NoIntersection]

\* The call.
ParIntersect ==
    /\ pc = "par_call"
    /\ output' = intersectParabolic(input.mirror, input.ray)
    /\ pc' = "par_done"
    /\ UNCHANGED <<varsSystem, varsViewer, varsSensor, varsRay, varsOpt, varsFine, varsBatch, input>>

NextPar == ParIntersect

SpecPar == InitPar /\ [][NextPar]_vars

(***************************************************************************)
(* SpecReflect: one call of Ray::reflect.                                  *)
(*                                                                         *)
(* A vector is [x, y, den], standing for (x / den, y / den) with den > 0,  *)
(* and the arithmetic is that of the rationals.  The unit normals are the  *)
(* axis directions, the only unit vectors binary32 holds exactly, and the  *)
(* rational points of the circle with denominator 5.  The new origin and   *)
(* the colour of the ray are left out.                                     *)
(***************************************************************************)
Vec(x, y, den) == [x |-> x, y |-> y, den |-> den]

UnitNormals ==
    {Vec(sx * p[1], sy * p[2], p[3]) :
        sx \in {-1, 1}, sy \in {-1, 1},
        p \in {<<1, 0, 1>>, <<0, 1, 1>>, <<3, 4, 5>>, <<4, 3, 5>>}}

\* Mutant of reflectDirection: the normal component is removed, not reversed.
reflectDirection_Projected(d, n) ==
    LET dot == d.x * n.x + d.y * n.y
    IN  Vec(d.x * n.den * n.den - dot * n.x,
            d.y * n.den * n.den - dot * n.y,
            d.den * n.den * n.den)

\* dot = d.n; direction = direction - 2 * dot * normal.  dot is held as the
\* numerator over d.den * n.den.
reflectDirection(d, n) ==
    LET dot == d.x * n.x + d.y * n.y
    IN  Vec(d.x * n.den * n.den - 2 * dot * n.x,
            d.y * n.den * n.den - 2 * dot * n.y,
            d.den * n.den * n.den)

InitReflect ==
    /\ \E dx \in -MaxDir..MaxDir, dy \in -MaxDir..MaxDir, n \in UnitNormals,
          b \in 0..2 :
          input = [name |-> "reflect",
                   ray |-> [id |-> 0, bounces |-> b,
                            path |-> [k \in 1..(b + 1) |-> [ray |-> 0, seg |-> k - 2]],
                            direction |-> Vec(dx, dy, 1)],
                   hitPoint |-> [ray |-> 0, seg |-> b],
                   normal |-> n]
    /\ output = NoCall
    /\ viewer = NoViewer
    /\ pc = "reflect_call"
    /\ mirrors = BatchMirrors
    /\ camera = "Camera"
    /\ numRays = 2
    /\ maxBounces = MaxBounces
    /\ batch = NoBatch
    /\ writers = NoWriters
    /\ secondary = [centerX |-> 0, centerY |-> 0]
    /\ hitPoints = <<>>
    /\ totalRaysTraced = 0
    /\ blockedRays = 0
    /\ result = NoResult
    /\ locals = NoLocals
    /\ surf = NoSurface
    /\ fineArgs = NoFineArgs
    /\ fine = NoFineLocals
    /\ land = <<>>
    /\ scan = [scanXMin |-> 1, scanXMax |-> 1, scanYMin |-> 0, scanYMax |-> 0]
    /\ i = 0
    /\ ray = NewRay(0)
    /\ bounce = 0
    /\ isect = [o \in Objects |-> NoIntersection]

\* ray.reflect(hitPoint, normal)
RayReflect ==
    /\ pc = "reflect_call"
    /\ output' = [name |-> "reflect",
                  ray |-> [reflect(input.ray, input.hitPoint) EXCEPT
                             !.direction = reflectDirection(@, input.normal)]]
    /\ pc' = "reflected"
    /\ UNCHANGED <<varsSystem, varsViewer, varsSensor, varsRay, varsOpt, varsFine, varsBatch, input>>

NextReflect == RayReflect

SpecReflect == InitReflect /\ [][NextReflect]_vars

(***************************************************************************)
(* Properties of the bounce state machine (SpecTrace).                     *)
(***************************************************************************)
Range(f) == {f[k] : k \in DOMAIN f}

\* The surfaces whose probe takes part at bounce index b, as the
\* specification of the propagator gives them: every mirror below index 2,
\* the Sensor always.
ProbedAt(b) ==
    (IF b < 2 THEN Range(mirrors) ELSE {}) \cup (IF camera = "null" THEN {} ELSE {camera})

\* Surface s reports a hit and every other probed surface reports none or a
\* strictly farther one.
StrictlyNearest(s, b) ==
    /\ s \in ProbedAt(b)
    /\ isect[s].hit
    /\ \A o \in ProbedAt(b) \ {s} : isect[o].hit => isect[o].distance > isect[s].distance

\* The loop body of traceRay is about to run for bounce index `bounce`.
AtBounce == pc = "trace" /\ bounce < maxBounces

HitsOfRay(id) == {k \in 1..Len(hitPoints) : hitPoints[k].ray = id}

\* C1: whenever the nearest valid hit at a bounce index is the Sensor, the
\* step appends the hit point once to the ray's path and once to the
\* Sensor's hitPoints, applies no reflection and ends the tracing of the ray
\* -- for every system handed to the propagator, the viewer's included.
C1_SensorHitEndsRay ==
    [][ (AtBounce /\ camera # "null" /\ StrictlyNearest(camera, bounce))
        => /\ hitPoints' = Append(hitPoints, HitPoint)
           /\ ray'.path = Append(ray.path, HitPoint)
           /\ ray'.bounces = ray.bounces
           /\ pc' = "break_sensor" ]_vars

\* C1 restricted to the systems whose mirror list does not hold the Sensor.
C1_SensorHitEndsRay_SensorOutsideList ==
    [][ (AtBounce /\ camera # "null" /\ camera \notin Range(mirrors)
            /\ StrictlyNearest(camera, bounce))
        => /\ hitPoints' = Append(hitPoints, HitPoint)
           /\ ray'.path = Append(ray.path, HitPoint)
           /\ ray'.bounces = ray.bounces
           /\ pc' = "break_sensor" ]_vars

\* C2: a nearest hit on the hyperbolic mirror at bounce index 0 sets the
\* bounce counter to -1 and adds exactly 1 to blockedRays, and that ray adds
\* no hit point and is not counted in totalRaysTraced; at bounce index 1 the
\* same hit reflects the ray and blocks nothing.
C2_SecondaryFirstBlocks ==
    /\ [][ (AtBounce /\ bounce = 0 /\ StrictlyNearest("Secondary", bounce))
           => /\ ray'.bounces = -1
              /\ blockedRays' = blockedRays + 1
              /\ hitPoints' = hitPoints
              /\ totalRaysTraced' = totalRaysTraced
              /\ pc' = "break_blocked" ]_vars
    /\ [][ pc = "break_blocked"
           => /\ hitPoints' = hitPoints
              /\ totalRaysTraced' = totalRaysTraced
              /\ blockedRays' = blockedRays ]_vars
    /\ [][ (AtBounce /\ bounce = 1 /\ StrictlyNearest("Secondary", bounce))
           => /\ ray'.bounces = ray.bounces + 1
              /\ ray'.path = Append(ray.path, HitPoint)
              /\ blockedRays' = blockedRays
              /\ pc' = "trace" ]_vars

\* A ray has just been blocked: the secondary was its nearest hit at bounce 0.
C2_Witness ==
    /\ pc = "break_blocked"
    /\ bounce = 0
    /\ StrictlyNearest("Secondary", 0)
    /\ ray.bounces = -1
    /\ blockedRays >= 1

\* C3: at bounce index >= 2 no mirror is probed: the step is a Sensor hit if
\* the Sensor reports one and a miss otherwise, never a reflection; so for
\* every maxBounces the bounce counter stays in {-1, 0, 1, 2}.
C3_NoMirrorFromBounceTwo ==
    /\ [](ray.bounces \in {-1, 0, 1, 2})
    /\ [][ (AtBounce /\ bounce >= 2)
           => /\ pc' = (IF camera # "null" /\ isect[camera].hit
                        THEN "break_sensor" ELSE "break_miss")
              /\ ray'.bounces = ray.bounces ]_vars

\* A twice-reflected ray reaches the Sensor at bounce index 2 although the
\* primary reports a nearer hit.
C3_Witness ==
    /\ pc = "break_sensor"
    /\ bounce = 2
    /\ ray.bounces = 2
    /\ isect["Primary"].hit
    /\ isect["Primary"].distance < isect["Camera"].distance

\* C4: after clearHits and a bundle of numRays rays, totalRaysTraced +
\* blockedRays = numRays, no ray has added more than one hit point and
\* hitPoints.size() <= totalRaysTraced; a ray that leaves the loop because
\* bounce reached maxBounces has added no hit point and is counted once.
C4_BundleAccounting ==
    /\ [](pc = "bundle"
            => /\ totalRaysTraced + blockedRays = i
               /\ Len(hitPoints) <= totalRaysTraced)
    /\ [](pc \in {"bundle", "trace"} \cup AfterLoop
            => \A id \in 0..(numRays - 1) : Cardinality(HitsOfRay(id)) <= 1)
    /\ [](pc = "loop_end" => HitsOfRay(ray.id) = {})
    /\ [][ pc = "loop_end"
           => /\ totalRaysTraced' = totalRaysTraced + 1
              /\ blockedRays' = blockedRays
              /\ hitPoints' = hitPoints ]_vars

\* A whole bundle has been traced in which one ray was blocked, one reached
\* the Sensor, and the last one used up its bounces by reflecting.
C4_Witness ==
    /\ pc = "bundle"
    /\ i = numRays
    /\ totalRaysTraced >= 1
    /\ Len(hitPoints) < totalRaysTraced
    /\ maxBounces >= 1
    /\ ray.bounces = maxBounces



(***************************************************************************)
(* Properties of the coarse grid scan (SpecOpt).                           *)
(***************************************************************************)
\* The call has scanned the grid and returned.
Scanned == pc = "returned" /\ Optimizable

\* The returned position.
Best == <<result.bestSecondaryX, result.bestSecondaryY>>

\* What the bundle gives with the secondary at pos.
HitsAt(pos) == land[pos].hits
RMSAt(pos) == getRMSSpotSize(PointsOf(land[pos]))
TracedAt(pos) == numRays - land[pos].blocked

\* The largest hit count of the grid.
GridMax == CHOOSE h \in 0..numRays :
              /\ \E pos \in Grid : HitsAt(pos) = h
              /\ \A pos \in Grid : HitsAt(pos) <= h

\* pos reaches 50% of the bundle.
ReachesHalf(pos) == 2 * HitsAt(pos) >= numRays

\* C5: the hit percentage reported by optimizeSecondaryPosition is
\* 100 x hits / raysTraced, raysTraced being the Sensor's count of traced
\* (non-blocked) rays of the batch that produced the reported hits.
C5_PercentageOverTraced ==
    Scanned =>
        \E pos \in Grid :
            /\ HitsAt(pos) = result.maxHits
            /\ result.hitPercentage.num * TracedAt(pos)
                   = 100 * HitsAt(pos) * result.hitPercentage.den

\* C6: the reported maxHits and hitPercentage are the hit count and the
\* percentage of the bundle traced with the secondary at the returned
\* position (the batch the Sensor holds when the call returns, from which
\* focusSpread is read), over either count of rays.
C6_ResultDescribesReturnedPosition ==
    Scanned =>
        /\ result.maxHits = Len(hitPoints)
        /\ \/ Same(result.hitPercentage, Rat(100 * Len(hitPoints), numRays))
           \/ result.hitPercentage.num * totalRaysTraced
                  = 100 * Len(hitPoints) * result.hitPercentage.den

\* C7: if some grid position has a hit count of at least 50% of numRays, the
\* returned position has one too and its RMS is the minimum over the
\* positions that reach 50%, for odd and even numRays.
C7_ThresholdSelection ==
    (Scanned /\ \E pos \in Grid : ReachesHalf(pos)) =>
        /\ Best \in Grid
        /\ ReachesHalf(Best)
        /\ \A pos \in Grid : ReachesHalf(pos) => ~Less(RMSAt(pos), RMSAt(Best))

\* C8: if no grid position reaches 50% of numRays, the returned position is
\* a grid position whose hit count is the maximum of the grid.
C8_FallbackReturnsGlobalMax ==
    (Scanned /\ \A pos \in Grid : ~ReachesHalf(pos)) =>
        /\ Best \in Grid
        /\ HitsAt(Best) = GridMax

\* The fallback scan ran, below the threshold but not empty-handed, and had
\* positions to pass over.
C8_Witness ==
    /\ Scanned
    /\ \A pos \in Grid : ~ReachesHalf(pos)
    /\ locals.bestHitsForRMS = 0
    /\ GridMax > 0
    /\ HitsAt(Best) = GridMax
    /\ \E pos \in Grid : HitsAt(pos) < GridMax

\* pos alone attains the maximum of the grid, at or near the bundle size.
SingleOptimum(pos) ==
    /\ HitsAt(pos) = GridMax
    /\ GridMax >= numRays - 1
    /\ \A q \in Grid \ {pos} : HitsAt(q) < GridMax

\* C9 as stated: a single optimum at or near the bundle size is returned as
\* bestSecondaryX within one grid step, with maxHits the maximum, whatever
\* the RMS of the other positions.
C9_SingleOptimumWins ==
    \A pos \in Grid :
        (Scanned /\ SingleOptimum(pos)) =>
            /\ result.bestSecondaryX \in (pos[1] - 1)..(pos[1] + 1)
            /\ result.maxHits = GridMax

\* C9 amended: a single optimum at or near the bundle size is the returned
\* position, with maxHits the maximum, provided its RMS is strictly below
\* the RMS of every other position with at least numRays / 2 (rounded down)
\* hits.
C9_SingleOptimumWinsOnRMS ==
    \A pos \in Grid :
        (/\ Scanned
         /\ SingleOptimum(pos)
         /\ \A q \in Grid \ {pos} :
               HitsAt(q) >= numRays \div 2 => Less(RMSAt(pos), RMSAt(q)))
        => /\ Best = pos
           /\ result.maxHits = GridMax

\* A single optimum with a spread beat a rival above the threshold two
\* grid steps away, and a focused position below the threshold.
C9_Witness ==
    \E pos \in Grid :
        /\ Scanned
        /\ SingleOptimum(pos)
        /\ Best = pos
        /\ Less(Rat(0, 1), RMSAt(pos))
        /\ \A q \in Grid \ {pos} :
              HitsAt(q) >= numRays \div 2 => Less(RMSAt(pos), RMSAt(q))
        /\ \E q \in Grid : q[1] + 2 <= pos[1] /\ HitsAt(q) >= numRays \div 2
        /\ \E q \in Grid : HitsAt(q) < numRays \div 2

\* C10: when optimizeSecondaryPosition returns, whether early, after the
\* threshold selection or after the fallback scan, the secondary is where
\* it was at the call.
C10_SecondaryRestored ==
    pc = "returned" => secondary = OriginalPosition

\* The call returned after the fallback scan with a best position that is
\* not the original one.
C10_Witness ==
    /\ Scanned
    /\ locals.bestHitsForRMS = 0
    /\ secondary = OriginalPosition
    /\ Best # <<secondary.centerX, secondary.centerY>>
    /\ Len(result.scanData) > 0

(***************************************************************************)
(* Properties of the hill climb (SpecFine).                                *)
(***************************************************************************)
\* fineOptimize ran the climb and returned.
Climbed == pc = "returned" /\ Optimizable

\* The RMS the Sensor reports after the bundle with the secondary at the seed.
SeedRMS == getRMSSpotSize(BundleAt(fineArgs.startX, fineArgs.startY))

\* C11: without a hyperbolic mirror or without a sensor, the call returns a
\* result whose maxHits is 0, traces nothing and leaves the secondary and
\* the Sensor as they were (here for fineOptimize).
C11_RefusalReturnsZero ==
    (pc = "returned" /\ ~Optimizable) =>
        /\ result.maxHits = 0
        /\ hitPoints = <<>> /\ totalRaysTraced = 0 /\ blockedRays = 0
        /\ secondary = [centerX |-> fineArgs.startX, centerY |-> fineArgs.startY]

\* C12: the RMS at the position fineOptimize returns is less than or equal
\* to the RMS at the seed, for every seed and landscape.
C12_NeverWorseThanSeed ==
    Climbed => ~Less(SeedRMS, result.focusSpread)

\* The climb ran and returned a strictly better position than the seed.
C12_Witness ==
    /\ Climbed
    /\ fine.iter > 0
    /\ <<result.bestSecondaryX, result.bestSecondaryY>> # <<fineArgs.startX, fineArgs.startY>>
    /\ Less(result.focusSpread, SeedRMS)

\* C13: on a landscape with a single minimum (bowl, valley), once the climb
\* has ended because the step fell below the minimum step, the returned
\* position is within the final step size of the optimum (0, 0); checked
\* with the larger last step the climb tried, in each coordinate.
C13_ConvergesToOptimum ==
    (Climbed /\ surf.kind \in {"bowl", "valley"} /\ fine.stepSize < MinStep) =>
        /\ Abs(result.bestSecondaryX) <= 2 * fine.stepSize
        /\ Abs(result.bestSecondaryY) <= 2 * fine.stepSize

\* C14: the maxHits and hitPercentage fineOptimize returns are those of the
\* bundle traced with the secondary at the returned position, which is the
\* batch the Sensor holds when the call returns.
C14_FineResultDescribesReturnedPosition ==
    Climbed =>
        /\ result.maxHits = Len(hitPoints)
        /\ Same(result.hitPercentage, Rat(100 * Len(hitPoints), numRays))

(***************************************************************************)
(* Properties of the batch ranking (SpecBatch).                            *)
(***************************************************************************)
\* The results are sorted and not yet cut to topN.
Ranked == pc = "batch_top"

\* C15: of two evaluated configurations with equal RMS, the one with the
\* strictly higher hit percentage has the strictly higher score and is
\* ranked before the other; with equal hit percentage, the one with the
\* strictly lower RMS has the strictly higher score and is ranked before
\* the other.
C15_ScoreMonotone ==
    Ranked =>
        \A a, b \in 1..Len(batch.results) :
            LET ra == batch.results[a]
                rb == batch.results[b]
            IN  /\ (ra.rmsSpotSize = rb.rmsSpotSize /\ ra.hitPercentage > rb.hitPercentage)
                       => (ra.score > rb.score /\ a < b)
                /\ (ra.hitPercentage = rb.hitPercentage /\ ra.rmsSpotSize < rb.rmsSpotSize)
                       => (ra.score > rb.score /\ a < b)

\* optimizeBatch has returned.
BatchDone == pc = "returned" /\ batch # NoBatch

\* The rows of the configurations in the returned vector.
ReturnedRows == {batch.results[a].config : a \in 1..Len(batch.results)}

\* The configurations left out of the returned vector.
LeftOut == {k \in 1..Len(batch.configs) : batch.configs[k].rowIndex \notin ReturnedRows}

\* C16: for topN >= 0, optimizeBatch returns min(topN, number of
\* configurations) results, each the evaluation of a different loaded
\* configuration, in non-increasing score order, and no configuration left
\* out has a higher score than one returned.
C16_TopNByScore ==
    BatchDone =>
        LET out == batch.results
            n == Len(batch.configs)
        IN  /\ Len(out) = IF batch.topN < n THEN batch.topN ELSE n
            /\ \A a \in 1..Len(out) :
                  \E k \in 1..n : out[a] = evaluateConfig(batch.configs[k])
            /\ \A a, b \in 1..Len(out) : a < b => out[a].config # out[b].config
            /\ \A a, b \in 1..Len(out) : a < b => out[a].score >= out[b].score
            /\ \A k \in LeftOut : \A a \in 1..Len(out) :
                  evaluateConfig(batch.configs[k]).score <= out[a].score

\* A cut through the ranking: some configurations returned, one with a
\* strictly lower score than all of them left out, and two different scores
\* among those returned.
C16_Witness ==
    /\ BatchDone
    /\ batch.topN > 1
    /\ Len(batch.results) = batch.topN
    /\ \E k \in LeftOut : \A a \in 1..Len(batch.results) :
          evaluateConfig(batch.configs[k]).score < batch.results[a].score
    /\ batch.results[1].score > batch.results[Len(batch.results)].score

\* C17: configurations with equal score appear in the ranked output in the
\* order of their input rows, and when a tie straddles the topN cut the
\* earlier input rows are the ones retained.
C17_TiesInInputOrder ==
    BatchDone =>
        LET out == batch.results
        IN  /\ \A a, b \in 1..Len(out) :
                  (a < b /\ out[a].score = out[b].score) => out[a].config < out[b].config
            /\ \A k \in LeftOut : \A a \in 1..Len(out) :
                  evaluateConfig(batch.configs[k]).score = out[a].score
                      => out[a].config < batch.configs[k].rowIndex

\* C18: within one optimizeBatch run no mutable object is written by the
\* evaluations of two different configurations.
C18_NoSharedWrites ==
    \A o \in DOMAIN writers : Cardinality(writers[o]) <= 1

(***************************************************************************)
(* Properties of HyperbolicMirror::intersect (SpecHyp).                    *)
(***************************************************************************)
\* C19: every hit accepted on a left-branch mirror has its X at or left of
\* the mirror's centre X, and at or right of it on a right-branch mirror,
\* also when only one of the two roots is positive.
C19_HitOnConfiguredBranch ==
    (pc = "hyp_done" /\ output.hit) =>
        IF input.mirror.useLeftBranch
        THEN output.x <= input.mirror.centerX
        ELSE output.x >= input.mirror.centerX

(***************************************************************************)
(* Properties of the primary mirror built from a configuration (SpecBuild).*)
(***************************************************************************)
\* C20: the primary mirror that evaluateConfig or buildTelescopeFromConfig
\* builds from a configuration has a bore radius strictly less than its
\* half-aperture primaryDiameter / 2.
C20_BoreInsideAperture ==
    pc = "built" => 2 * output.primary.holeRadius < input.config.primaryDiameter

(***************************************************************************)
(* Properties of the reused Sensor (SpecTrace).                            *)
(***************************************************************************)
\* The rays that have added a point to hitPoints.
RaysWithHit == {hitPoints[k].ray : k \in 1..Len(hitPoints)}

\* C21: clearHits empties hitPoints and zeroes totalRaysTraced and
\* blockedRays, and it comes before every batch of rays; so the hit count
\* read after a batch lies in 0..numRays and counts only rays of that batch,
\* one point for each, also when the Sensor carries the points of the batch
\* before.
C21_HitCountOfThisBatch ==
    /\ [][ pc = "idle"
           => /\ hitPoints' = <<>>
              /\ totalRaysTraced' = 0
              /\ blockedRays' = 0
              /\ pc' = "bundle" ]_vars
    /\ [](/\ Len(hitPoints) <= numRays
          /\ Cardinality(RaysWithHit) = Len(hitPoints)
          /\ pc # "idle" => RaysWithHit \subseteq 0..i)

\* A batch in which every ray reached the Sensor has ended, and the Sensor,
\* still holding its points, is about to be cleared for the next batch.
C21_Witness ==
    /\ pc = "idle"
    /\ numRays >= 2
    /\ Len(hitPoints) = numRays
    /\ totalRaysTraced = numRays

(***************************************************************************)
(* Properties of Ray::reflect (SpecReflect).                               *)
(***************************************************************************)
\* u.v for vectors with denominators, times u.den * v.den.
Dot(u, v) == u.x * v.x + u.y * v.y

\* C22: for a direction d and a unit normal n, the direction d' that
\* Ray::reflect leaves in the ray has the length of d and d'.n = -(d.n);
\* the path has grown by the hit point and the bounce counter by exactly 1.
C22_ReflectionLaw ==
    pc = "reflected" =>
        LET d == input.ray.direction
            n == input.normal
            r == output.ray.direction
        IN  /\ Dot(r, r) * d.den * d.den = Dot(d, d) * r.den * r.den
            /\ Dot(r, n) * d.den = -Dot(d, n) * r.den
            /\ output.ray.path = Append(input.ray.path, input.hitPoint)
            /\ output.ray.bounces = input.ray.bounces + 1

\* A ray that is neither along nor across an oblique normal has been
\* reflected for the second time.
C22_Witness ==
    /\ pc = "reflected"
    /\ input.normal.den > 1
    /\ Dot(input.ray.direction, input.normal) > 0
    /\ output.ray.direction # input.ray.direction
    /\ output.ray.bounces = 2

(***************************************************************************)
(* Properties of ParabolicMirror::intersect (SpecPar).                     *)
(***************************************************************************)
\* The call was made with a ray along the axis, direction (1, 0), whose
\* height divides so that the surface point at that height is exact.
AxisRayDone ==
    /\ pc = "par_done"
    /\ input.ray.dx = 1
    /\ input.ray.dy = 0
    /\ (input.ray.originY * input.ray.originY) % (4 * input.mirror.focalLength) = 0

\* apexX - h * h / (4 f)
SurfaceX(m, h) == m.centerX - (h * h) \div (4 * m.focalLength)

\* C23: a ray along the axis that starts left of the surface at a height h
\* inside [yMin, yMax] and outside the bore is reported as a hit at
\* (apexX - h*h/(4f), h); a ray whose height lies inside the bore or outside
\* [yMin, yMax] is reported as no hit.
C23_AxisRayMeetsParabola ==
    AxisRayDone =>
        LET m == input.mirror
            h == input.ray.originY
        IN  /\ (/\ input.ray.originX < SurfaceX(m, h)
                /\ h >= m.yMin /\ h <= m.yMax
                /\ ~(m.holeRadius > 0 /\ Abs(h) < m.holeRadius))
               => (output.hit /\ output.x = SurfaceX(m, h) /\ output.y = h)
            /\ ((m.holeRadius > 0 /\ Abs(h) < m.holeRadius) \/ h < m.yMin \/ h > m.yMax)
               => ~output.hit

\* C23 with the tolerances of the code: a ray along the axis is reported as
\* a hit, at (apexX - h*h/(4f), h), exactly when it starts more than EPSILON
\* left of the surface, its height h lies in [yMin - EPSILON, yMax + EPSILON]
\* and not inside the bore.
C23_AxisRayMeetsParabolaWithinTolerance ==
    AxisRayDone =>
        LET m == input.mirror
            h == input.ray.originY
        IN  IF /\ input.ray.originX + EPSILON < SurfaceX(m, h)
               /\ h >= m.yMin - EPSILON /\ h <= m.yMax + EPSILON
               /\ ~(m.holeRadius > 0 /\ Abs(h) < m.holeRadius)
            THEN output.hit /\ output.x = SurfaceX(m, h) /\ output.y = h
            ELSE ~output.hit

\* A ray along the axis, above the upper edge of the mirror by EPSILON, has
\* been reported as a hit.
C23_Witness ==
    /\ AxisRayDone
    /\ input.ray.originY = input.mirror.yMax + EPSILON
    /\ output.hit
    /\ output.y > input.mirror.yMax

(***************************************************************************)
(* Properties of the choice of the nearest hit (SpecTrace).                *)
(***************************************************************************)
\* The probed surfaces that report a hit at bounce index b.
Hitters(b) == {s \in ProbedAt(b) : isect[s].hit}

\* The least distance reported at bounce index b.
MinDistance(b) ==
    CHOOSE d \in {isect[s].distance : s \in Hitters(b)} :
        \A s \in Hitters(b) : d <= isect[s].distance

\* The places in the mirror list whose mirror reports the least distance.
NearestPlaces(b) ==
    {k \in 1..Len(mirrors) :
        isect[mirrors[k]].hit /\ isect[mirrors[k]].distance = MinDistance(b)}

FirstPlace(b) == CHOOSE k \in NearestPlaces(b) : \A j \in NearestPlaces(b) : k <= j

\* C24: at a bounce index below 2 with some hit reported, traceRay acts on
\* a hit of the least distance reported by the mirrors and the Sensor: on
\* the earliest mirror of the list that reports that distance, by blocking
\* or reflecting the ray, and on the Sensor, by ending the ray there, only
\* when no mirror reports it.
C24_NearestHitActedOn ==
    [][ (AtBounce /\ bounce < 2 /\ Hitters(bounce) # {})
        => LET n == Nearest(bounce)
           IN  /\ n.closest.hit
               /\ n.closest.distance = MinDistance(bounce)
               /\ IF NearestPlaces(bounce) # {}
                  THEN /\ n.hitMirror = mirrors[FirstPlace(bounce)]
                       /\ hitPoints' = hitPoints
                       /\ IF bounce = 0 /\ getType(mirrors[FirstPlace(bounce)]) = "hyperbolic"
                          THEN pc' = "break_blocked" /\ ray'.bounces = -1
                          ELSE pc' = "trace" /\ ray' = reflect(ray, HitPoint)
                  ELSE /\ n.hitMirror = "null"
                       /\ pc' = "break_sensor"
                       /\ hitPoints' = Append(hitPoints, HitPoint) ]_vars

\* The secondary, listed after the primary, and the Sensor reported the same
\* distance at bounce index 0, the primary a greater one or none, and the
\* ray was blocked by the secondary.
C24_Witness ==
    /\ pc = "break_blocked"
    /\ bounce = 0
    /\ isect["Secondary"].hit
    /\ isect["Camera"].hit
    /\ isect["Camera"].distance = isect["Secondary"].distance
    /\ Closer(isect["Secondary"], isect["Primary"])

(***************************************************************************)
(* Properties of the step size of the hill climb (SpecFineLive).           *)
(***************************************************************************)
\* The RMS of the candidate that the direction loop is about to evaluate.
CandidateRMS ==
    getRMSSpotSize(BundleAt(Step(fine.bestX, directions[fine.dir][1], fine.stepSize),
                            Step(fine.bestY, directions[fine.dir][2], fine.stepSize)))

\* C25: fineOptimize returns; it runs at most maxIterations iterations; at
\* the end of an iteration the step size is halved if none of the 8
\* candidates had an RMS strictly below the best RMS seen until then, and
\* left alone otherwise; and the loop ends at once when the halved step is
\* below the minimum step.
C25_HalvingAndTermination ==
    /\ <>(pc = "returned")
    /\ [](pc \in {"fine_dir", "fine_iter_end"} => fine.iter < fineArgs.maxIterations)
    /\ [][ pc = "fine_dir"
           => fine'.improved =
                 ((fine.dir > 1 /\ fine.improved) \/ Less(CandidateRMS, fine.bestRMS)) ]_vars
    /\ [][ pc = "fine_iter_end"
           => /\ fine'.stepSize = (IF fine.improved THEN fine.stepSize
                                   ELSE fine.stepSize \div 2)
              /\ (~fine.improved /\ fine'.stepSize < MinStep) => pc' = "fine_final"
              /\ (pc' = "fine_dir") => (fine'.iter = fine.iter + 1 /\ ~fine'.improved) ]_vars

\* The loop has ended on a halving in its second or a later iteration, with
\* iterations of the budget left.
C25_Witness ==
    /\ pc = "fine_final"
    /\ Optimizable
    /\ fine.stepSize < MinStep
    /\ fine.iter >= 1
    /\ fine.iter + 1 < fineArgs.maxIterations

(***************************************************************************)
(* Properties of the frame of the hill climb (SpecFine).                   *)
(***************************************************************************)
\* C26: each repositioning of the secondary by fineOptimize, for a candidate
\* and for the final re-trace, is undone; so the secondary is where it was
\* at the call when fineOptimize returns.
C26_FineSecondaryRestored ==
    /\ [][ (pc \in {"fine_dir", "fine_final"}) => secondary' = secondary ]_vars
    /\ [](pc = "returned"
            => secondary = [centerX |-> fineArgs.startX, centerY |-> fineArgs.startY])

(***************************************************************************)
(* Properties of the scan of evaluateConfig (SpecEval).                    *)
(***************************************************************************)
\* What the bundle left on the Sensor at the k-th scanned position.
HitsAtScan(k) == Len(PointsOf(input.config.design[k]))
RMSAtScan(k) == RMSFloat(PointsOf(input.config.design[k]))

\* No scanned position is better than the k-th: none has more hits, none
\* with as many hits a smaller RMS, and none of those that equal it in both
\* comes earlier.
BestOfScan(k) ==
    \A j \in 1..Len(input.config.design) :
        \/ HitsAtScan(j) < HitsAtScan(k)
        \/ HitsAtScan(j) = HitsAtScan(k) /\ RMSAtScan(j) > RMSAtScan(k)
        \/ HitsAtScan(j) = HitsAtScan(k) /\ RMSAtScan(j) = RMSAtScan(k) /\ j >= k

\* C27: evaluateConfig reports a scanned position, with Y = 0, that has the
\* maximum hit count, among those the smallest RMS and among those the
\* earliest X; cameraHits, rmsSpotSize and bestSecondaryX are those of that
\* one position, also when no position has a hit.
C27_ReportsBestScannedPosition ==
    (pc = "eval_done" /\ camera # "null") =>
        \E k \in 1..Len(input.config.design) :
            /\ BestOfScan(k)
            /\ output.cameraHits = HitsAtScan(k)
            /\ output.rmsSpotSize = RMSAtScan(k)
            /\ output.bestSecondaryX = BatchScan[k]
            /\ output.bestSecondaryY = 0

\* C27 for the configurations whose scan visits its positions.
C27_ReportsBestScannedPosition_ScanNotEmpty ==
    input.config.design # <<>> => C27_ReportsBestScannedPosition

(***************************************************************************)
(* Properties of the reach of the hill climb (SpecFine).                   *)
(***************************************************************************)
\* C28: the position fineOptimize returns is within searchRadius of the
\* seed (startX, startY).
C28_WithinSearchRadius ==
    Climbed =>
        LET dx == result.bestSecondaryX - fineArgs.startX
            dy == result.bestSecondaryY - fineArgs.startY
        IN  dx * dx + dy * dy <= fineArgs.searchRadius * fineArgs.searchRadius

(***************************************************************************)
(* Properties of the viewer's rebuilt telescope (SpecView).                *)
(***************************************************************************)
\* C29: the viewer's system has the secondary at the same offset from the
\* apex of the primary as the system in which evaluateConfig found the
\* alignment, whatever primaryCenterX the viewer uses.
C29_SameOffsetFromApex ==
    pc = "view_built" =>
        secondary.centerX - input.primaryCenterX
          = InitialSecondaryX(input.config, EvalPrimaryCenterX) + input.offset
              - EvalPrimaryCenterX

(***************************************************************************)
(* Properties of the viewer's configuration index (SpecViewer).            *)
(***************************************************************************)
\* C30: after any sequence of Prev, Next and Load-CSV events, whenever a
\* frame reads availableConfigs[currentConfigIndex], 0 <= currentConfigIndex
\* < availableConfigs.size(), also after a Load-CSV that yields nothing.
C30_ConfigIndexInRange ==
    pc = "viewer_frame" =>
        /\ 0 <= viewer.currentConfigIndex
        /\ viewer.currentConfigIndex < Len(viewer.availableConfigs)

=============================================================================
